---- MODULE Spec2Model ----
(***************************************************************************)
(* Batch PDF form filler (App component, multi-output version).            *)
(*                                                                         *)
(* A JavaScript string is a sequence of one-character strings, so that     *)
(* toLowerCase, replace and substring are computed character by character. *)
(* Column names, PDF field names and file names are opaque keys and stay   *)
(* atomic strings.  The PDF field names written with the non-ASCII letters *)
(* U+03C0 and U+2206 in the source are spelled "pi" and "delta" here.      *)
(***************************************************************************)
EXTENDS Integers, Sequences, FiniteSets, TLC

VARIABLES
    selectedTemplate,  \* useState<string>("")
    currentTemplate,   \* useState<TemplateConfig | null>(null)
    csvFile,           \* useState<File | null>(null)
    pdfFiles,          \* useState<Map<string, File>>(new Map())
    csvData,           \* useState<CSVData[]>([])
    loading,           \* useState(false)
    error,             \* useState<string | null>(null)
    success,           \* useState<string | null>(null)
    progress,          \* useState<string | null>(null)
    loads,             \* handleTemplateChange invocations suspended at an await
    parses,            \* Papa.parse calls whose callback has not run yet
    runs,              \* fillPdfForm invocations suspended at an await
    downloads,         \* archives handed to the browser by link.click()
    finished,          \* fillPdfForm invocations that have returned, oldest first
    today,             \* what new Date() reads
    budget             \* user events left

vars == <<selectedTemplate, currentTemplate, csvFile, pdfFiles, csvData, loading,
          error, success, progress, loads, parses, runs, downloads, finished, today,
          budget>>

-----------------------------------------------------------------------------
(* Bounds of the model *)

\* user events (template selections, CSV uploads, clicks on Generate) in one
\* behaviour of the full specification
MaxEvents == 5

\* user events in one behaviour of the specification of the template loads
MaxLoadEvents == 4

\* invocations of handleTemplateChange suspended at an await at one time,
\* and calls of Papa.parse whose callback is pending at one time
MaxPending == 2

\* the longest Tenant value of the naming runs is MaxPad + 2 characters
MaxPad == 49

-----------------------------------------------------------------------------
(* Characters and strings *)

UpperSeq == <<"A","B","C","D","E","F","G","H","I","J","K","L","M",
              "N","O","P","Q","R","S","T","U","V","W","X","Y","Z">>

LowerSeq == <<"a","b","c","d","e","f","g","h","i","j","k","l","m",
              "n","o","p","q","r","s","t","u","v","w","x","y","z">>

DigitSeq == <<"0","1","2","3","4","5","6","7","8","9">>

Range(f) == {f[i] : i \in DOMAIN f}

Min(a, b) == IF a < b THEN a ELSE b

\* the characters the class \s matches, among those the model uses
WhiteSpace == {" ", "\t"}

\* the characters [a-z0-9] matches under the flag i
AlphaNumeric == Range(UpperSeq) \cup Range(LowerSeq) \cup Range(DigitSeq)

LowerChar(c) ==
    IF \E k \in 1..26 : UpperSeq[k] = c
    THEN LowerSeq[CHOOSE k \in 1..26 : UpperSeq[k] = c]
    ELSE c

\* String.prototype.toLowerCase
toLowerCase(s) == [k \in 1..Len(s) |-> LowerChar(s[k])]

\* String.prototype.substring(0, n)
substring0(s, n) == SubSeq(s, 1, Min(Len(s), n))

\* s.replace(/[^a-z0-9]/gi, "_")
replaceNonAlnum(s) == [k \in 1..Len(s) |-> IF s[k] \in AlphaNumeric THEN s[k] ELSE "_"]

\* s.replace(/\s+/g, "_"): every maximal run of white space becomes one "_"
RECURSIVE replaceWhiteSpaceRuns(_)
replaceWhiteSpaceRuns(s) ==
    IF s = <<>> THEN <<>>
    ELSE IF s[1] \in WhiteSpace
         THEN IF Len(s) > 1 /\ s[2] \in WhiteSpace
              THEN replaceWhiteSpaceRuns(Tail(s))
              ELSE <<"_">> \o replaceWhiteSpaceRuns(Tail(s))
         ELSE <<s[1]>> \o replaceWhiteSpaceRuns(Tail(s))

\* s.replace("$", ""): a string pattern replaces the first occurrence only
RECURSIVE replaceFirstDollar(_)
replaceFirstDollar(s) ==
    IF s = <<>> THEN <<>>
    ELSE IF s[1] = "$" THEN Tail(s)
         ELSE <<s[1]>> \o replaceFirstDollar(Tail(s))

\* String(n) and `${n}` of a non-negative integer
RECURSIVE NumberToString(_)
NumberToString(n) ==
    IF n < 10 THEN <<DigitSeq[n + 1]>>
    ELSE NumberToString(n \div 10) \o <<DigitSeq[(n % 10) + 1]>>

\* n copies of the character c
Pad(c, n) == [k \in 1..n |-> c]

-----------------------------------------------------------------------------
(* Number(value) and Intl.NumberFormat("en-US", two fraction digits).      *)
(* The decimal forms of StrNumericLiteral are parsed; the model's values   *)
(* hold no exponent, no radix prefix and no "Infinity", so every other     *)
(* string is NaN.                                                          *)

IsDigit(c) == c \in Range(DigitSeq)

DigitValue(c) == (CHOOSE k \in 1..10 : DigitSeq[k] = c) - 1

RECURSIVE DigitsToNat(_)
DigitsToNat(ds) ==
    IF ds = <<>> THEN 0
    ELSE 10 * DigitsToNat(SubSeq(ds, 1, Len(ds) - 1)) + DigitValue(ds[Len(ds)])

RECURSIVE TrimStart(_)
TrimStart(s) == IF s # <<>> /\ s[1] \in WhiteSpace THEN TrimStart(Tail(s)) ELSE s

RECURSIVE TrimEnd(_)
TrimEnd(s) ==
    IF s # <<>> /\ s[Len(s)] \in WhiteSpace THEN TrimEnd(SubSeq(s, 1, Len(s) - 1)) ELSE s

NaN == [nan |-> TRUE, neg |-> FALSE, int |-> 0, frac |-> <<>>]

\* Number(s): white space is trimmed, the empty string is 0
Number(s) ==
    LET t == TrimEnd(TrimStart(s))
        signed == t # <<>> /\ t[1] \in {"+", "-"}
        u == IF signed THEN Tail(t) ELSE t
        dots == {k \in 1..Len(u) : u[k] = "."}
        dot == IF dots = {} THEN Len(u) + 1 ELSE CHOOSE k \in dots : TRUE
        ip == SubSeq(u, 1, dot - 1)
        fp == SubSeq(u, dot + 1, Len(u))
    IN  IF t = <<>> THEN [nan |-> FALSE, neg |-> FALSE, int |-> 0, frac |-> <<>>]
        ELSE IF /\ Cardinality(dots) <= 1
                /\ \A k \in 1..Len(u) : IsDigit(u[k]) \/ u[k] = "."
                /\ Len(ip) + Len(fp) >= 1
             THEN [nan |-> FALSE, neg |-> signed /\ t[1] = "-",
                   int |-> DigitsToNat(ip), frac |-> fp]
             ELSE NaN

\* the en-US grouping separator every three integer digits
RECURSIVE GroupDigits(_)
GroupDigits(ds) ==
    IF Len(ds) <= 3 THEN ds
    ELSE GroupDigits(SubSeq(ds, 1, Len(ds) - 3)) \o <<",">> \o SubSeq(ds, Len(ds) - 2, Len(ds))

\* new Intl.NumberFormat("en-US", {minimumFractionDigits: 2,
\*                                 maximumFractionDigits: 2}).format(n)
formatNumber2(n) ==
    IF n.nan THEN <<"N","a","N">>
    ELSE LET f == n.frac \o <<"0","0","0">>
             cents == 100 * n.int + 10 * DigitValue(f[1]) + DigitValue(f[2])
             rounded == IF DigitValue(f[3]) >= 5 THEN cents + 1 ELSE cents
             c == rounded % 100
         IN  (IF n.neg THEN <<"-">> ELSE <<>>)
             \o GroupDigits(NumberToString(rounded \div 100)) \o <<".">>
             \o <<DigitSeq[(c \div 10) + 1], DigitSeq[(c % 10) + 1]>>

-----------------------------------------------------------------------------
(* new Date() *)

MonthNames ==
    << <<"J","a","n","u","a","r","y">>, <<"F","e","b","r","u","a","r","y">>,
       <<"M","a","r","c","h">>, <<"A","p","r","i","l">>, <<"M","a","y">>,
       <<"J","u","n","e">>, <<"J","u","l","y">>, <<"A","u","g","u","s","t">>,
       <<"S","e","p","t","e","m","b","e","r">>, <<"O","c","t","o","b","e","r">>,
       <<"N","o","v","e","m","b","e","r">>, <<"D","e","c","e","m","b","e","r">> >>

\* an instant, as its calendar date in local time and in UTC
Dates ==
    { [local |-> [year |-> 2026, month |-> 10, date |-> 30],
       utc   |-> [year |-> 2026, month |-> 10, date |-> 31]],
      [local |-> [year |-> 2027, month |-> 1, date |-> 5],
       utc   |-> [year |-> 2027, month |-> 1, date |-> 5]] }

TwoDigits(n) == IF n < 10 THEN <<"0">> \o NumberToString(n) ELSE NumberToString(n)

\* d.toLocaleString("en-US", { month: "long" })
monthLong(d) == MonthNames[d.local.month]

\* new Intl.DateTimeFormat("en-US").format(d)
formatDateUS(d) ==
    NumberToString(d.local.month) \o <<"/">> \o NumberToString(d.local.date)
    \o <<"/">> \o NumberToString(d.local.year)

\* d.toISOString().split("T")[0]
isoDate(d) ==
    NumberToString(d.utc.year) \o <<"-">> \o TwoDigits(d.utc.month)
    \o <<"-">> \o TwoDigits(d.utc.date)

-----------------------------------------------------------------------------
(* pdf-lib: a form is a function from field names to fields *)

TextField(s) == [kind |-> "text", text |-> s, checked |-> FALSE]

CheckBox(b) == [kind |-> "check", text |-> <<>>, checked |-> b]

\* form.getTextField(name) returns a field; otherwise it throws
hasTextField(form, name) == name \in DOMAIN form /\ form[name].kind = "text"

\* form.getCheckBox(name) returns a field; otherwise it throws
hasCheckBox(form, name) == name \in DOMAIN form /\ form[name].kind = "check"

setText(form, name, s) == [form EXCEPT ![name].text = s]

setChecked(form, name, b) == [form EXCEPT ![name].checked = b]

-----------------------------------------------------------------------------
(* COURT_ADDRESSES *)

CourtRecord(a, c, z) == [address |-> a, city |-> c, state |-> <<"C","O">>, zip |-> z]

COURT_ADDRESSES ==
    (<<"b","o","u","l","d","e","r">> :>
        CourtRecord(<<"1","7","7","7"," ","6","T","H"," ","S","T",".">>,
                    <<"B","O","U","L","D","E","R">>, 80302))
    @@ (<<"a","r","a","p","a","h","o","e">> :>
        CourtRecord(<<"1","7","9","0"," ","W","e","s","t"," ","L","i","t","t","l","e","t","o","n"," ","B","l","v","d">>,
                    <<"L","i","t","t","l","e","t","o","n">>, 80120))
    @@ (<<"a","d","a","m","s">> :>
        CourtRecord(<<"1","1","0","0"," ","J","u","d","i","c","i","a","l"," ","C","e","n","t","e","r"," ","D","r">>,
                    <<"B","r","i","g","h","t","o","n">>, 80601))
    @@ (<<"j","e","f","f","e","r","s","o","n">> :>
        CourtRecord(<<"1","0","0"," ","J","e","f","f","e","r","s","o","n"," ","C","o","u","n","t","y"," ","P","k","w","y">>,
                    <<"G","o","l","d","e","n">>, 80401))
    @@ (<<"b","r","o","o","m","f","i","e","l","d">> :>
        CourtRecord(<<"1","7"," ","D","e","s","c","o","m","b","e","s"," ","D","r">>,
                    <<"B","r","o","o","m","f","i","e","l","d">>, 80020))
    @@ (<<"d","o","u","g","l","a","s">> :>
        CourtRecord(<<"4","0","0","0"," ","J","u","s","t","i","c","e"," ","W","a","y">>,
                    <<"C","a","s","t","l","e"," ","R","o","c","k">>, 80109))
    @@ (<<"e","l"," ","p","a","s","o">> :>
        CourtRecord(<<"2","7","0"," ","S"," ","T","e","j","o","n"," ","S","t">>,
                    <<"C","o","l","o","r","a","d","o"," ","S","p","r","i","n","g","s">>, 80903))
    @@ (<<"w","e","l","d">> :>
        CourtRecord(<<"9","0","1"," ","9","t","h"," ","A","v","e">>,
                    <<"G","r","e","e","l","e","y">>, 80631))
    @@ (<<"d","e","n","v","e","r">> :>
        CourtRecord(<<"C","o","l","o","r","a","d","o"," ","1","4","3","7"," ","B","a","n","n","o","c","k"," ","S","t","r","e","e","t",","," ","R","o","o","m"," ","1","3","5"," ","D","e","n","v","e","r">>,
                    <<"D","e","n","v","e","r">>, 80202))

\* `${address}, ${city}, ${state} ${zip}`
courtAddressText(courtInfo) ==
    courtInfo.address \o <<",", " ">> \o courtInfo.city \o <<",", " ">>
    \o courtInfo.state \o <<" ">> \o NumberToString(courtInfo.zip)

-----------------------------------------------------------------------------
(* TEMPLATES.  A fieldMapping is the sequence of its entries in insertion   *)
(* order (the order of Object.entries); pdfFieldNames holds the one name of *)
(* a string-valued entry or the names of an array-valued entry, and isArray *)
(* says which of the two the source wrote.  customLogic names the closure.  *)

One(csvColumn, pdfFieldName) ==
    [csvColumn |-> csvColumn, isArray |-> FALSE, pdfFieldNames |-> <<pdfFieldName>>]

Many(csvColumn, pdfFieldNames) ==
    [csvColumn |-> csvColumn, isArray |-> TRUE, pdfFieldNames |-> pdfFieldNames]

EVICTION_COMPLAINT_TEMPLATE ==
    [id |-> "eviction-complaint",
     name |-> "Eviction Complaint, Summons and Affidavit",
     pdfOutputs |-> <<
        [filename |-> "jdf_101_v1.pdf",
         displayName |-> <<"C","o","m","p","l","a","i","n","t">>,
         fieldMapping |-> <<
            Many("County", <<"Court County", "7.3">>),
            One("Landlord", "pi"),
            Many("Tenant", <<"delta", "6.4", "7.0">>),
            One("Street Address", "7.1"),
            One("City", "7.2"),
            One("Zip", "7.4"),
            Many("Prior Notice", <<"8.1", "8.5">>),
            One("Prior Notice 2nd", "8.4"),
            One("Rent Owed", "10A.2"),
            One("Months of Rent", "10A.4"),
            One("Rent Per Diem", "10A.5"),
            One("Damages", "12.1"),
            One("Total", "12.3") >>,
         customLogic |-> "Complaint"],
        [filename |-> "jdf_102_v1.pdf",
         displayName |-> <<"S","u","m","m","o","n","s">>,
         fieldMapping |-> <<
            One("County", "Court County"),
            One("Landlord", "pi"),
            One("Tenant", "delta"),
            One("Summons Date", "2A.1"),
            One("Time", "2A.2") >>,
         customLogic |-> "Summons"],
        [filename |-> "cares_affidavit_v1.pdf",
         displayName |-> <<"C","A","R","E","S"," ","A","f","f","i","d","a","v","i","t">>,
         fieldMapping |-> <<
            One("County", "court_county"),
            One("Landlord", "plaintiff"),
            One("Tenant", "defendants") >>,
         customLogic |-> "CARES Affidavit"] >>]

DFC_TEMPLATE ==
    [id |-> "demand-compliance",
     name |-> "Demand for Compliance (DFC Form)",
     pdfOutputs |-> <<
        [filename |-> "dfc_form.pdf",
         displayName |-> <<"D","F","C">>,
         fieldMapping |-> <<
            One("Tenant", "0.0"),
            One("Rent Owed", "1A.1"),
            One("Street Address", "4.1"),
            One("City", "4.2"),
            One("County", "4.3"),
            One("Monthly Rent", "4.7"),
            One("Months of rent", "1A.2"),
            One("Cure", "0.2"),
            One("Date", "6.2") >>,
         customLogic |-> "DFC"] >>]

TEMPLATES == <<EVICTION_COMPLAINT_TEMPLATE, DFC_TEMPLATE>>

\* currentTemplate === null
NoTemplate == [id |-> "", name |-> "", pdfOutputs |-> <<>>]

-----------------------------------------------------------------------------
(* A row of csvData is a function from the columns it has to strings.      *)

\* rowData[csvColumn], with undefined read as the empty string where the
\* code tests the value for truthiness or writes `?? ""`
valueOf(rowData, csvColumn) ==
    IF csvColumn \in DOMAIN rowData THEN rowData[csvColumn] ELSE <<>>

\* the test without its last conjunct
hasValueDefined(rowData, csvColumn) == csvColumn \in DOMAIN rowData

\* value !== undefined && value !== null && value !== ""
hasValue(rowData, csvColumn) ==
    csvColumn \in DOMAIN rowData /\ rowData[csvColumn] # <<>>

\* Array.isArray(pdfFieldNames) ? pdfFieldNames : [pdfFieldNames]
fieldNamesArray(entry) ==
    IF entry.isArray THEN entry.pdfFieldNames ELSE <<entry.pdfFieldNames[1]>>

\* the test without toLowerCase
isCheckedExact(value) ==
    value \in {<<"t","r","u","e">>, <<"y","e","s">>, <<"1">>}

\* value.toLowerCase() === "true" || value.toLowerCase() === "yes" || value === "1"
isChecked(value) ==
    \/ toLowerCase(value) = <<"t","r","u","e">>
    \/ toLowerCase(value) = <<"y","e","s">>
    \/ value = <<"1">>

\* the body writing the lower-cased value, which only the check box test needs
fillFieldLowerCased(form, pdfFieldName, value) ==
    IF hasTextField(form, pdfFieldName)
    THEN setText(form, pdfFieldName, toLowerCase(value))
    ELSE IF hasCheckBox(form, pdfFieldName)
         THEN setChecked(form, pdfFieldName, isChecked(value))
         ELSE form

\* the body of fieldNamesArray.forEach: text field first, then check box,
\* otherwise a warning is logged and the form is left as it is
fillField(form, pdfFieldName, value) ==
    IF hasTextField(form, pdfFieldName) THEN setText(form, pdfFieldName, value)
    ELSE IF hasCheckBox(form, pdfFieldName)
         THEN setChecked(form, pdfFieldName, isChecked(value))
         ELSE form

\* the loop left at the first name that is neither a text field nor a check box
RECURSIVE fillFieldsUntilFailure(_, _, _)
fillFieldsUntilFailure(form, names, value) ==
    IF names = <<>> THEN form
    ELSE IF names[1] \notin DOMAIN form THEN form
         ELSE fillFieldsUntilFailure(fillField(form, names[1], value), Tail(names), value)

\* fieldNamesArray.forEach(...); the form after each name is bound as a value
\* (the one element of a set) before the loop goes on
RECURSIVE fillFields(_, _, _)
fillFields(form, names, value) ==
    IF names = <<>> THEN form
    ELSE CHOOSE result \in {fillFields(next, Tail(names), value) :
                                next \in {fillField(form, names[1], value)}} : TRUE

\* Object.entries(output.fieldMapping).forEach(...)
RECURSIVE fillMapping(_, _, _)
fillMapping(form, fieldMapping, rowData) ==
    IF fieldMapping = <<>> THEN form
    ELSE LET entry == fieldMapping[1]
         IN  CHOOSE result \in
                {fillMapping(next, Tail(fieldMapping), rowData) :
                    next \in {IF hasValue(rowData, entry.csvColumn)
                              THEN fillFields(form, fieldNamesArray(entry),
                                              rowData[entry.csvColumn])
                              ELSE form}} : TRUE

-----------------------------------------------------------------------------
(* customLogic: each try block is one operator; a throw inside the block    *)
(* leaves the writes made before it and skips the rest of the block.        *)

\* the signature dates of the Complaint: all three fields are fetched first
setSignature3(form, d) ==
    IF /\ hasTextField(form, "Sig1_Date")
       /\ hasTextField(form, "Sig1_Month")
       /\ hasTextField(form, "Sig1_Year")
    THEN setText(setText(setText(form,
            "Sig1_Date", NumberToString(d.local.date)),
            "Sig1_Month", monthLong(d)),
            "Sig1_Year", NumberToString(d.local.year))
    ELSE form

EVICTION_EXPLANATION ==
    <<"N","o","n","-","p","a","y","m","e","n","t"," ","o","f"," ","u","t","i","l","i","t","i","e","s"," ","a","n","d"," ","l","e","a","s","e"," ","c","h","a","r","g","e","s">>

setEvictionExplanation(form, rowData) ==
    IF hasTextField(form, "11.0")
    THEN IF valueOf(rowData, "Damages") # <<>>
         THEN setText(form, "11.0",
                EVICTION_EXPLANATION
                \o <<" ","i","n"," ","t","h","e"," ","a","m","o","u","n","t"," ">>
                \o rowData["Damages"])
         ELSE setText(form, "11.0", EVICTION_EXPLANATION)
    ELSE form

\* the block writing an empty address when the county has no record
setCourtAddressOrBlank(form, rowData, name) ==
    IF hasTextField(form, name)
    THEN LET key == toLowerCase(valueOf(rowData, "County"))
         IN  IF key \in DOMAIN COURT_ADDRESSES
             THEN setText(form, name, courtAddressText(COURT_ADDRESSES[key]))
             ELSE setText(form, name, <<>>)
    ELSE form

\* the lookup with the County value as it is written in the row
setCourtAddressExactKey(form, rowData, name) ==
    IF hasTextField(form, name)
    THEN LET key == valueOf(rowData, "County")
         IN  IF key \in DOMAIN COURT_ADDRESSES
             THEN setText(form, name, courtAddressText(COURT_ADDRESSES[key]))
             ELSE form
    ELSE form

\* the court address block, on the field of the given name
setCourtAddress(form, rowData, name) ==
    IF hasTextField(form, name)
    THEN LET county == valueOf(rowData, "County")
             key == toLowerCase(county)
         IN  IF key \in DOMAIN COURT_ADDRESSES
             THEN setText(form, name, courtAddressText(COURT_ADDRESSES[key]))
             ELSE form
    ELSE form

formatInterest(form, rowData) ==
    IF hasTextField(form, "10A.5")
    THEN IF valueOf(rowData, "Rent Per Diem") # <<>>
         THEN setText(form, "10A.5", formatNumber2(Number(rowData["Rent Per Diem"])))
         ELSE form
    ELSE form

setSignature1(form, d) ==
    IF hasTextField(form, "Sig_Date")
    THEN setText(form, "Sig_Date", formatDateUS(d))
    ELSE form

\* the two blocks of the DFC form: strip the first "$" of a column
stripDollar(form, rowData, name, csvColumn) ==
    IF hasTextField(form, name)
    THEN IF valueOf(rowData, csvColumn) # <<>>
         THEN setText(form, name, replaceFirstDollar(rowData[csvColumn]))
         ELSE form
    ELSE form

\* the closures with one try block around the whole body: the first field
\* that is missing ends the rule
customLogicSingleTry(closure, form, rowData, d) ==
    CASE closure = "Complaint" ->
            IF ~ (/\ hasTextField(form, "Sig1_Date")
                  /\ hasTextField(form, "Sig1_Month")
                  /\ hasTextField(form, "Sig1_Year"))
            THEN form
            ELSE IF ~ hasTextField(form, "11.0")
                 THEN setSignature3(form, d)
                 ELSE IF ~ hasTextField(form, "Court Address")
                      THEN setEvictionExplanation(setSignature3(form, d), rowData)
                      ELSE formatInterest(
                              setCourtAddress(
                                  setEvictionExplanation(setSignature3(form, d), rowData),
                                  rowData, "Court Address"),
                              rowData)
      [] closure = "Summons" ->
            IF ~ hasTextField(form, "Court Address")
            THEN form
            ELSE setSignature1(setCourtAddress(form, rowData, "Court Address"), d)
      [] closure = "CARES Affidavit" ->
            setCourtAddress(form, rowData, "court_address")
      [] closure = "DFC" ->
            IF ~ hasTextField(form, "1A.1")
            THEN form
            ELSE stripDollar(stripDollar(form, rowData, "1A.1", "Rent Owed"),
                             rowData, "4.7", "Monthly Rent")
      [] OTHER -> form

customLogic(closure, form, rowData, d) ==
    CASE closure = "Complaint" ->
            formatInterest(
                setCourtAddress(
                    setEvictionExplanation(setSignature3(form, d), rowData),
                    rowData, "Court Address"),
                rowData)
      [] closure = "Summons" ->
            setSignature1(setCourtAddress(form, rowData, "Court Address"), d)
      [] closure = "CARES Affidavit" ->
            setCourtAddress(form, rowData, "court_address")
      [] closure = "DFC" ->
            stripDollar(stripDollar(form, rowData, "1A.1", "Rent Owed"),
                        rowData, "4.7", "Monthly Rent")
      [] OTHER -> form

\* the unit with the closure called before the mapping loop
fillDocumentRuleFirst(form, output, rowData, d) ==
    fillMapping(customLogic(output.customLogic, form, rowData, d),
                output.fieldMapping, rowData)

\* one unit between PDFDocument.load and pdfDoc.save
fillDocument(form, output, rowData, d) ==
    customLogic(output.customLogic, fillMapping(form, output.fieldMapping, rowData),
                rowData, d)

-----------------------------------------------------------------------------
(* File names *)

\* rowData["Tenant"] || `Row_${i + 1}`      (i counts from 0)
tenantName(rowData, i) ==
    IF valueOf(rowData, "Tenant") # <<>> THEN rowData["Tenant"]
    ELSE <<"R","o","w","_">> \o NumberToString(i + 1)

\* the base cut one character later
safeFilenameCutAt51(rowData, i) == substring0(replaceNonAlnum(tenantName(rowData, i)), 51)

\* tenantName.replace(/[^a-z0-9]/gi, "_").substring(0, 50)
safeFilename(rowData, i) == substring0(replaceNonAlnum(tenantName(rowData, i)), 50)

\* the suffix with /\s/g for /\s+/g: every white-space character becomes "_"
suffixPerCharacter(output) ==
    [p \in 1..Len(output.displayName) |->
        IF output.displayName[p] \in WhiteSpace THEN "_"
        ELSE LowerChar(output.displayName[p])]

\* output.displayName.toLowerCase().replace(/\s+/g, "_")
suffix(output) == replaceWhiteSpaceRuns(toLowerCase(output.displayName))

\* the name without the row number
filenameWithoutIndex(rowData, i, output) ==
    safeFilename(rowData, i) \o <<"_">> \o suffix(output) \o <<".","p","d","f">>

\* `${safeFilename}_${i + 1}_${suffix}.pdf`
filename(rowData, i, output) ==
    safeFilename(rowData, i) \o <<"_">> \o NumberToString(i + 1) \o <<"_">>
    \o suffix(output) \o <<".","p","d","f">>

-----------------------------------------------------------------------------
(* The PDF files served under /templates.  The files are not part of the   *)
(* program: a file is a form holding the fields the descriptor names, each *)
(* a text field unless the file makes it a check box or leaves it out.     *)

RECURSIVE fieldsOfMapping(_)
fieldsOfMapping(fieldMapping) ==
    IF fieldMapping = <<>> THEN {}
    ELSE Range(fieldMapping[1].pdfFieldNames) \cup fieldsOfMapping(Tail(fieldMapping))

fieldsOfCustomLogic(closure) ==
    CASE closure = "Complaint" ->
            {"Sig1_Date", "Sig1_Month", "Sig1_Year", "11.0", "Court Address", "10A.5"}
      [] closure = "Summons" -> {"Court Address", "Sig_Date"}
      [] closure = "CARES Affidavit" -> {"court_address"}
      [] closure = "DFC" -> {"1A.1", "4.7"}
      [] OTHER -> {}

fieldsOf(output) ==
    fieldsOfMapping(output.fieldMapping) \cup fieldsOfCustomLogic(output.customLogic)

\* the template default of a text field and of a check box
DefaultText == <<"d","f","l","t">>

PdfFile(output, missing, boxes, defaultChecked) ==
    [f \in fieldsOf(output) \ missing |->
        IF f \in boxes THEN CheckBox(defaultChecked) ELSE TextField(DefaultText)]

\* what fetch(`/templates/${output.filename}`) answers when it succeeds
servedPdf(output) == PdfFile(output, {}, {}, FALSE)

-----------------------------------------------------------------------------
(* Messages shown to the user: the text with its interpolated values.       *)

Message(text, n, of, name) == [text |-> text, n |-> n, of |-> of, name |-> name]

Null == Message("null", 0, 0, <<>>)

\* File | null
NoFile == [name |-> "", type |-> "", rows |-> <<>>]

-----------------------------------------------------------------------------
(* The CSV files the user picks in the full specification.                  *)

JaneRow ==
    [x \in {"Tenant", "County", "Rent Owed"} |->
        CASE x = "Tenant" -> <<"J","a","n","e"," ","Q","."," ","P","u","b","l","i","c">>
          [] x = "County" -> <<"B","o","u","l","d","e","r">>
          [] x = "Rent Owed" -> <<"$","1",",","2","0","0">>]

BlankRow ==
    [x \in {"Tenant", "County"} |->
        CASE x = "Tenant" -> <<>>
          [] x = "County" -> <<"N","o","w","h","e","r","e">>]

CsvFiles ==
    { [name |-> "one.csv", type |-> "text/csv", rows |-> <<JaneRow>>],
      [name |-> "two.csv", type |-> "text/csv", rows |-> <<BlankRow, JaneRow>>],
      [name |-> "empty.csv", type |-> "text/csv", rows |-> <<>>],
      [name |-> "notes.txt", type |-> "text/plain", rows |-> <<>>] }

-----------------------------------------------------------------------------
(* State after the first render *)

RemoveAt(seq, j) == SubSeq(seq, 1, j - 1) \o SubSeq(seq, j + 1, Len(seq))

TemplateIds == {TEMPLATES[t].id : t \in DOMAIN TEMPLATES}

\* TEMPLATES.find((t) => t.id === value)
findTemplate(value) == TEMPLATES[CHOOSE t \in DOMAIN TEMPLATES : TEMPLATES[t].id = value]

Init ==
    /\ selectedTemplate = ""
    /\ currentTemplate = NoTemplate
    /\ csvFile = NoFile
    /\ pdfFiles = <<>>
    /\ csvData = <<>>
    /\ loading = FALSE
    /\ error = Null
    /\ success = Null
    /\ progress = Null
    /\ loads = <<>>
    /\ parses = <<>>
    /\ runs = <<>>
    /\ downloads = <<>>
    /\ finished = <<>>
    /\ today = CHOOSE d \in Dates : d.local # d.utc
    /\ budget = MaxEvents

-----------------------------------------------------------------------------
(* handleTemplateChange: the part up to the first await, then one step per  *)
(* await of the loop (fetch, response.blob, blob.arrayBuffer and            *)
(* PDFDocument.load of each output), then the end of the try block or its   *)
(* catch. A suspended invocation records the await it waits at (phase).     *)

handleTemplateChange(value) ==
    /\ selectedTemplate' = value
    /\ csvFile' = NoFile
    /\ csvData' = <<>>
    /\ error' = Null
    /\ success' = Null
    /\ IF value # ""
       THEN IF value \in TemplateIds
            THEN /\ currentTemplate' = findTemplate(value)
                 /\ loads' = Append(loads, [template |-> findTemplate(value), k |-> 1,
                                            phase |-> "fetch",
                                            loadedPdfs |-> <<>>])
                 /\ UNCHANGED pdfFiles
            ELSE UNCHANGED <<currentTemplate, loads, pdfFiles>>
       ELSE /\ currentTemplate' = NoTemplate
            /\ pdfFiles' = <<>>
            /\ UNCHANGED loads
    /\ UNCHANGED <<loading, progress, parses, runs, downloads, finished, today>>

\* the user picks another item of the Select
SelectTemplate ==
    /\ budget > 0
    /\ Len(loads) < MaxPending
    /\ budget' = budget - 1
    /\ \E value \in TemplateIds \ {selectedTemplate} : handleTemplateChange(value)

\* fetch() returns a response that is ok: response.blob() is called
TemplateResponded ==
    \E j \in DOMAIN loads :
        /\ loads[j].phase = "fetch"
        /\ loads' = [loads EXCEPT ![j].phase = "blob"]
        /\ UNCHANGED <<selectedTemplate, currentTemplate, csvFile, pdfFiles, csvData,
                       loading, error, success, progress, parses, runs, downloads,
                       finished, today, budget>>

\* response.blob() returns: the File is put in loadedPdfs and
\* blob.arrayBuffer() is called
TemplateBlobRead ==
    \E j \in DOMAIN loads :
        LET l == loads[j]
            output == l.template.pdfOutputs[l.k]
            loadedPdfs == (output.filename :> servedPdf(output)) @@ l.loadedPdfs
        IN  /\ l.phase = "blob"
            /\ loads' = [loads EXCEPT ![j] = [l EXCEPT !.phase = "arrayBuffer",
                                                        !.loadedPdfs = loadedPdfs]]
            /\ UNCHANGED <<selectedTemplate, currentTemplate, csvFile, pdfFiles, csvData,
                           loading, error, success, progress, parses, runs, downloads,
                           finished, today, budget>>

\* blob.arrayBuffer() returns: PDFDocument.load() is called
TemplateBytesRead ==
    \E j \in DOMAIN loads :
        /\ loads[j].phase = "arrayBuffer"
        /\ loads' = [loads EXCEPT ![j].phase = "load"]
        /\ UNCHANGED <<selectedTemplate, currentTemplate, csvFile, pdfFiles, csvData,
                       loading, error, success, progress, parses, runs, downloads,
                       finished, today, budget>>

\* PDFDocument.load() returns: the field names are logged and the loop goes
\* on to the fetch of the next output, or ends
TemplateFetched ==
    \E j \in DOMAIN loads :
        LET l == loads[j]
        IN  /\ l.phase = "load"
            /\ IF l.k < Len(l.template.pdfOutputs)
               THEN /\ loads' = [loads EXCEPT ![j] = [l EXCEPT !.k = l.k + 1,
                                                            !.phase = "fetch"]]
                    /\ UNCHANGED <<pdfFiles, success>>
               ELSE /\ loads' = RemoveAt(loads, j)
                    /\ pdfFiles' = l.loadedPdfs
                    /\ success' = Message("Template loaded", Len(l.template.pdfOutputs),
                                          0, <<>>)
            /\ UNCHANGED <<selectedTemplate, currentTemplate, csvFile, csvData, loading,
                           error, progress, parses, runs, downloads, finished, today,
                           budget>>

\* a catch block that keeps the files fetched before the failure
TemplateFetchFailedKeepsFetched ==
    \E j \in DOMAIN loads :
        /\ loads' = RemoveAt(loads, j)
        /\ error' = Message("Error loading PDF template", 0, 0, <<>>)
        /\ pdfFiles' = loads[j].loadedPdfs
        /\ UNCHANGED <<selectedTemplate, currentTemplate, csvFile, csvData, loading,
                       success, progress, parses, runs, downloads, finished, today,
                       budget>>

\* the response is not ok, or one of the awaits rejects
TemplateFetchFailed ==
    \E j \in DOMAIN loads :
        /\ loads' = RemoveAt(loads, j)
        /\ error' = Message("Error loading PDF template", 0, 0, <<>>)
        /\ pdfFiles' = <<>>
        /\ UNCHANGED <<selectedTemplate, currentTemplate, csvFile, csvData, loading,
                       success, progress, parses, runs, downloads, finished, today,
                       budget>>

-----------------------------------------------------------------------------
(* handleCsvUpload and the callbacks of Papa.parse *)

handleCsvUpload(file) ==
    /\ IF file # NoFile /\ file.type = "text/csv"
       THEN /\ csvFile' = file
            /\ error' = Null
            /\ parses' = Append(parses, file)
       ELSE /\ error' = Message("Please upload a valid CSV file", 0, 0, <<>>)
            /\ UNCHANGED <<csvFile, parses>>
    /\ UNCHANGED <<selectedTemplate, currentTemplate, pdfFiles, csvData, loading,
                   success, progress, loads, runs, downloads, finished, today>>

\* the file input is rendered only under a current template
UploadCsv ==
    /\ currentTemplate # NoTemplate
    /\ budget > 0
    /\ Len(parses) < MaxPending
    /\ budget' = budget - 1
    /\ \E file \in CsvFiles : handleCsvUpload(file)

\* complete: (results) => ...
ParseComplete ==
    \E j \in DOMAIN parses :
        LET data == parses[j].rows
        IN  /\ parses' = RemoveAt(parses, j)
            /\ IF Len(data) > 0
               THEN /\ csvData' = data
                    /\ success' = Message("CSV loaded successfully", Len(data), 0, <<>>)
               ELSE UNCHANGED <<csvData, success>>
            /\ UNCHANGED <<selectedTemplate, currentTemplate, csvFile, pdfFiles, loading,
                           error, progress, loads, runs, downloads, finished, today,
                           budget>>

\* error: (err) => ...
ParseError ==
    \E j \in DOMAIN parses :
        /\ parses' = RemoveAt(parses, j)
        /\ error' = Message("CSV parsing error", 0, 0, <<>>)
        /\ UNCHANGED <<selectedTemplate, currentTemplate, csvFile, pdfFiles, csvData,
                       loading, success, progress, loads, runs, downloads, finished,
                       today, budget>>

-----------------------------------------------------------------------------
(* fillPdfForm.  An invocation is a record of runs: the values its closure  *)
(* captured (template, csvData, pdfFiles), the loop position (row i from 0, *)
(* output k from 1), the await it is suspended at (phase), the form being   *)
(* saved, the JSZip object, the calls of zip.file so far and the counter.   *)
(* One action runs from the return of an await to the next await.           *)

\* the loops nested the other way round: for each output, every row
nextUnitOutputMajor(run, i, k) ==
    LET unit(r, o) ==
            [i |-> r, k |-> o, phase |-> "read",
             progress |-> Message("Processing", r + 1, Len(run.csvData),
                                  run.template.pdfOutputs[o].displayName)]
        done == [i |-> Len(run.csvData), k |-> 1, phase |-> "zip",
                 progress |-> Message("Creating zip file...", 0, 0, <<>>)]
    IN  IF Len(run.csvData) = 0 \/ Len(run.template.pdfOutputs) = 0 THEN done
        ELSE IF k = 1 THEN unit(0, 1)
        ELSE IF i + 1 < Len(run.csvData) THEN unit(i + 1, k - 1)
        ELSE IF k <= Len(run.template.pdfOutputs) THEN unit(0, k)
        ELSE done

\* the loops from the top of the iteration (i, k) up to the next await:
\* outputs without a loaded file are skipped by `continue`
RECURSIVE nextUnit(_, _, _)
nextUnit(run, i, k) ==
    IF i >= Len(run.csvData)
    THEN [i |-> i, k |-> k, phase |-> "zip",
          progress |-> Message("Creating zip file...", 0, 0, <<>>)]
    ELSE IF k > Len(run.template.pdfOutputs)
         THEN nextUnit(run, i + 1, 1)
         ELSE IF run.template.pdfOutputs[k].filename \in DOMAIN run.pdfFiles
              THEN [i |-> i, k |-> k, phase |-> "read",
                    progress |-> Message("Processing", i + 1, Len(run.csvData),
                                         run.template.pdfOutputs[k].displayName)]
              ELSE nextUnit(run, i, k + 1)

fillPdfForm ==
    IF currentTemplate = NoTemplate
    THEN /\ error' = Message("Please select a template", 0, 0, <<>>)
         /\ UNCHANGED <<loading, success, progress, runs>>
    ELSE IF Len(csvData) = 0 \/ DOMAIN pdfFiles = {}
         THEN /\ error' = Message("Please upload CSV file", 0, 0, <<>>)
              /\ UNCHANGED <<loading, success, progress, runs>>
         ELSE LET run == [template |-> currentTemplate, csvData |-> csvData,
                          pdfFiles |-> pdfFiles, i |-> 0, k |-> 1, phase |-> "start",
                          doc |-> <<>>, zip |-> <<>>, added |-> <<>>,
                          totalPdfsGenerated |-> 0]
                  unit == nextUnit(run, 0, 1)
              IN  /\ loading' = TRUE
                  /\ error' = Null
                  /\ success' = Null
                  /\ progress' = unit.progress
                  /\ runs' = Append(runs, [run EXCEPT !.i = unit.i, !.k = unit.k,
                                                      !.phase = unit.phase])

\* the disabled attribute without its loading test
generateEnabledWhileLoading ==
    /\ currentTemplate # NoTemplate
    /\ ~ (csvFile = NoFile \/ DOMAIN pdfFiles = {} \/ Len(csvData) = 0)

\* the disabled attribute of the Generate button, rendered under a template
generateEnabled ==
    /\ currentTemplate # NoTemplate
    /\ ~ (csvFile = NoFile \/ DOMAIN pdfFiles = {} \/ loading \/ Len(csvData) = 0)

ClickGenerate ==
    /\ generateEnabled
    /\ budget > 0
    /\ budget' = budget - 1
    /\ fillPdfForm
    /\ UNCHANGED <<selectedTemplate, currentTemplate, csvFile, pdfFiles, csvData, loads,
                   parses, downloads, finished, today>>

\* pdfFile.arrayBuffer() returns: PDFDocument.load() is called
FileRead ==
    \E j \in DOMAIN runs :
        /\ runs[j].phase = "read"
        /\ runs' = [runs EXCEPT ![j].phase = "load"]
        /\ UNCHANGED <<selectedTemplate, currentTemplate, csvFile, pdfFiles, csvData,
                       loading, error, success, progress, loads, parses, downloads,
                       finished, today, budget>>

\* the document of an output loaded once and filled again for each row: the
\* unit starts from what the previous row of the same output saved
DocumentLoadedSharedForm ==
    \E j \in DOMAIN runs :
        LET run == runs[j]
            output == run.template.pdfOutputs[run.k]
            rowData == run.csvData[run.i + 1]
            earlier == {n \in DOMAIN run.added : run.added[n].k = run.k}
            form == IF earlier = {}
                    THEN run.pdfFiles[output.filename]
                    ELSE run.zip[run.added[CHOOSE n \in earlier :
                                            \A m \in earlier : m <= n].name]
        IN  /\ run.phase = "load"
            /\ runs' = [runs EXCEPT ![j] =
                    [run EXCEPT !.phase = "save",
                                !.doc = fillDocument(form, output, rowData, today)]]
            /\ UNCHANGED <<selectedTemplate, currentTemplate, csvFile, pdfFiles, csvData,
                           loading, error, success, progress, loads, parses, downloads,
                           finished, today, budget>>

\* the unit reads the row from the csvData state of the latest render instead
\* of the rows its own invocation started with
DocumentLoadedLiveRows ==
    \E j \in DOMAIN runs :
        LET run == runs[j]
            output == run.template.pdfOutputs[run.k]
            rowData == IF run.i + 1 <= Len(csvData) THEN csvData[run.i + 1]
                       ELSE run.csvData[run.i + 1]
        IN  /\ run.phase = "load"
            /\ runs' = [runs EXCEPT ![j] =
                    [run EXCEPT !.phase = "save",
                                !.doc = fillDocument(run.pdfFiles[output.filename],
                                                     output, rowData, today)]]
            /\ UNCHANGED <<selectedTemplate, currentTemplate, csvFile, pdfFiles, csvData,
                           loading, error, success, progress, loads, parses, downloads,
                           finished, today, budget>>

\* PDFDocument.load() returns: the form is filled and pdfDoc.save() is called
DocumentLoaded ==
    \E j \in DOMAIN runs :
        LET run == runs[j]
            output == run.template.pdfOutputs[run.k]
            rowData == run.csvData[run.i + 1]
        IN  /\ run.phase = "load"
            /\ runs' = [runs EXCEPT ![j] =
                    [run EXCEPT !.phase = "save",
                                !.doc = fillDocument(run.pdfFiles[output.filename],
                                                     output, rowData, today)]]
            /\ UNCHANGED <<selectedTemplate, currentTemplate, csvFile, pdfFiles, csvData,
                           loading, error, success, progress, loads, parses, downloads,
                           finished, today, budget>>

\* pdfDoc.save() returns: the bytes are added to the zip and the loops go on
DocumentSaved ==
    \E j \in DOMAIN runs :
        LET run == runs[j]
            output == run.template.pdfOutputs[run.k]
            rowData == run.csvData[run.i + 1]
            name == filename(rowData, run.i, output)
            unit == nextUnit(run, run.i, run.k + 1)
        IN  /\ run.phase = "save"
            /\ runs' = [runs EXCEPT ![j] =
                    [run EXCEPT !.i = unit.i, !.k = unit.k, !.phase = unit.phase,
                                !.doc = <<>>,
                                !.zip = (name :> run.doc) @@ run.zip,
                                !.added = Append(run.added,
                                            [i |-> run.i, k |-> run.k, name |-> name]),
                                !.totalPdfsGenerated = run.totalPdfsGenerated + 1]]
            /\ progress' = unit.progress
            /\ UNCHANGED <<selectedTemplate, currentTemplate, csvFile, pdfFiles, csvData,
                           loading, error, success, loads, parses, downloads, finished,
                           today, budget>>

\* an archive named filled-forms-<date>.zip whatever the template
downloadNameFilledForms(template, d) == <<"filled-forms", "-", isoDate(d), ".zip">>

\* `${currentTemplate.id}-${new Date().toISOString().split("T")[0]}.zip`
downloadName(template, d) == <<template.id, "-", isoDate(d), ".zip">>

\* a success message that counts every (row, output) unit of the run
ArchiveGeneratedCountsUnits ==
    \E j \in DOMAIN runs :
        LET run == runs[j]
        IN  /\ run.phase = "zip"
            /\ downloads' = Append(downloads,
                    [download |-> downloadName(run.template, today), zip |-> run.zip])
            /\ progress' = Null
            /\ success' = Message("Successfully generated",
                                  Len(run.csvData) * Len(run.template.pdfOutputs),
                                  0, <<>>)
            /\ loading' = FALSE
            /\ runs' = RemoveAt(runs, j)
            /\ finished' = Append(finished, [run EXCEPT !.phase = "Completed"])
            /\ UNCHANGED <<selectedTemplate, currentTemplate, csvFile, pdfFiles, csvData,
                           error, loads, parses, today, budget>>

\* zip.generateAsync() returns: the archive is downloaded
ArchiveGenerated ==
    \E j \in DOMAIN runs :
        LET run == runs[j]
        IN  /\ run.phase = "zip"
            /\ downloads' = Append(downloads,
                    [download |-> downloadName(run.template, today), zip |-> run.zip])
            /\ progress' = Null
            /\ success' = Message("Successfully generated", run.totalPdfsGenerated,
                                  0, <<>>)
            /\ loading' = FALSE
            /\ runs' = RemoveAt(runs, j)
            /\ finished' = Append(finished, [run EXCEPT !.phase = "Completed"])
            /\ UNCHANGED <<selectedTemplate, currentTemplate, csvFile, pdfFiles, csvData,
                           error, loads, parses, today, budget>>

\* a catch block that only logs: the finally block alone
RunFailedSilently ==
    \E j \in DOMAIN runs :
        /\ loading' = FALSE
        /\ progress' = Null
        /\ runs' = RemoveAt(runs, j)
        /\ finished' = Append(finished, [runs[j] EXCEPT !.phase = "Failed"])
        /\ UNCHANGED <<selectedTemplate, currentTemplate, csvFile, pdfFiles, csvData,
                       error, success, loads, parses, downloads, today, budget>>

\* the handler without its finally block
RunFailedKeepsLoading ==
    \E j \in DOMAIN runs :
        /\ error' = Message("Error filling PDFs", 0, 0, <<>>)
        /\ runs' = RemoveAt(runs, j)
        /\ finished' = Append(finished, [runs[j] EXCEPT !.phase = "Failed"])
        /\ UNCHANGED <<selectedTemplate, currentTemplate, csvFile, pdfFiles, csvData,
                       loading, progress, success, loads, parses, downloads, today,
                       budget>>

\* the awaited call throws: catch and finally
RunFailed ==
    \E j \in DOMAIN runs :
        LET run == runs[j]
        IN  /\ error' = Message("Error filling PDFs", 0, 0, <<>>)
            /\ loading' = FALSE
            /\ progress' = Null
            /\ runs' = RemoveAt(runs, j)
            /\ finished' = Append(finished, [run EXCEPT !.phase = "Failed"])
            /\ UNCHANGED <<selectedTemplate, currentTemplate, csvFile, pdfFiles, csvData,
                           success, loads, parses, downloads, today, budget>>

-----------------------------------------------------------------------------

Next ==
    \/ SelectTemplate
    \/ TemplateResponded
    \/ TemplateBlobRead
    \/ TemplateBytesRead
    \/ TemplateFetched
    \/ TemplateFetchFailed
    \/ UploadCsv
    \/ ParseComplete
    \/ ParseError
    \/ ClickGenerate
    \/ FileRead
    \/ DocumentLoaded
    \/ DocumentSaved
    \/ ArchiveGenerated
    \/ RunFailed

Spec == Init /\ [][Next]_vars

-----------------------------------------------------------------------------
(* One generate run over one row, from the state in which a registered      *)
(* template has been selected and loaded and a one-row CSV file parsed.     *)
(* The row is the empty row, or the typical row with one column set to any  *)
(* input value or removed; the loaded files are the served ones with at     *)
(* most one field made a check box or left out, a field that the column     *)
(* maps to or that the customLogic reading the column writes.               *)

Columns ==
    {"County", "Landlord", "Tenant", "Street Address", "City", "Zip", "Prior Notice",
     "Prior Notice 2nd", "Rent Owed", "Months of Rent", "Rent Per Diem", "Damages",
     "Total", "Summons Date", "Time", "Monthly Rent", "Months of rent", "Cure", "Date"}

\* the columns a customLogic reads
CustomColumns == {"County", "Damages", "Rent Per Diem", "Rent Owed", "Monthly Rent"}

ValueInputs ==
    { <<>>, <<"x">>, <<"t","r","u","e">>, <<"T","R","U","E">>, <<"Y","e","s">>,
      <<"y","E","s">>, <<"1">>, <<"0">>, <<"f","a","l","s","e">>, <<"n","o">>,
      <<"1","2",".","5">>, <<"3",".","4","5","6">>, <<"$","1",",","2","0","0">>,
      <<"$","$","5">>,
      <<"B","o","u","l","d","e","r">>, <<"B","O","U","L","D","E","R">>,
      <<"E","l"," ","P","a","s","o">>, <<"N","o","w","h","e","r","e">>,
      <<"J","a","n","e"," ","Q","."," ","P","u","b","l","i","c">> }

FullRow ==
    [x \in Columns |->
        CASE x = "Tenant" -> <<"J","a","n","e"," ","Q","."," ","P","u","b","l","i","c">>
          [] x = "County" -> <<"B","o","u","l","d","e","r">>
          [] x = "Rent Owed" -> <<"$","1",",","2","0","0">>
          [] x = "Monthly Rent" -> <<"$","9","5","0">>
          [] x = "Rent Per Diem" -> <<"1","2",".","5">>
          [] x = "Damages" -> <<"$","7","5">>
          [] OTHER -> <<"x">>]

EmptyRow == <<>>

\* a cell of the CSV file: the column is missing from the row, or holds a value
CellInputs ==
    {[present |-> FALSE, value |-> <<>>]}
    \cup {[present |-> TRUE, value |-> v] : v \in ValueInputs}

rowWith(base, csvColumn, cell) ==
    IF cell.present
    THEN [x \in DOMAIN base \cup {csvColumn} |->
            IF x = csvColumn THEN cell.value ELSE base[x]]
    ELSE [x \in DOMAIN base \ {csvColumn} |-> base[x]]

RECURSIVE targetsOf(_, _)
targetsOf(fieldMapping, csvColumn) ==
    IF fieldMapping = <<>> THEN {}
    ELSE (IF fieldMapping[1].csvColumn = csvColumn
          THEN Range(fieldMapping[1].pdfFieldNames) ELSE {})
         \cup targetsOf(Tail(fieldMapping), csvColumn)

NoDeviation == [k |-> 0, field |-> "", kind |-> "none"]

Deviations(template, csvColumn) ==
    {NoDeviation}
    \cup UNION {
        {[k |-> k, field |-> f, kind |-> kind] :
            f \in targetsOf(template.pdfOutputs[k].fieldMapping, csvColumn)
                  \cup (IF csvColumn \in CustomColumns
                        THEN fieldsOfCustomLogic(template.pdfOutputs[k].customLogic)
                        ELSE {}),
            kind \in {"missing", "boxOn", "boxOff"}} : k \in DOMAIN template.pdfOutputs}

loadedWith(template, dev) ==
    [fn \in {template.pdfOutputs[k].filename : k \in DOMAIN template.pdfOutputs} |->
        LET k == CHOOSE k \in DOMAIN template.pdfOutputs :
                    template.pdfOutputs[k].filename = fn
            here == dev.k = k /\ dev.field \in fieldsOf(template.pdfOutputs[k])
        IN  PdfFile(template.pdfOutputs[k],
                    IF here /\ dev.kind = "missing" THEN {dev.field} ELSE {},
                    IF here /\ dev.kind \in {"boxOn", "boxOff"} THEN {dev.field} ELSE {},
                    dev.kind = "boxOn")]

\* the state after the template has loaded and the file has been parsed
Ready(template, files, rows, d) ==
    /\ selectedTemplate = template.id
    /\ currentTemplate = template
    /\ csvFile = [name |-> "input.csv", type |-> "text/csv", rows |-> rows]
    /\ pdfFiles = files
    /\ csvData = rows
    /\ loading = FALSE
    /\ error = Null
    /\ success = Message("CSV loaded successfully", Len(rows), 0, <<>>)
    /\ progress = Null
    /\ loads = <<>>
    /\ parses = <<>>
    /\ runs = <<>>
    /\ downloads = <<>>
    /\ finished = <<>>
    /\ today = d
    /\ budget = 1

\* the rows of the run: the typical row with one cell replaced, or the empty row
RowInputs ==
    [csvColumn : Columns, row : {EmptyRow}]
    \cup {[csvColumn |-> c, row |-> rowWith(FullRow, c, cell)] :
            c \in Columns, cell \in CellInputs}

InitRun ==
    \E t \in DOMAIN TEMPLATES, input \in RowInputs :
        \E dev \in Deviations(TEMPLATES[t], input.csvColumn) :
            Ready(TEMPLATES[t], loadedWith(TEMPLATES[t], dev), <<input.row>>,
                  CHOOSE d \in Dates : d.local # d.utc)

NextRun ==
    \/ ClickGenerate
    \/ FileRead
    \/ DocumentLoaded
    \/ DocumentSaved
    \/ ArchiveGenerated
    \/ RunFailed

SpecRun == InitRun /\ [][NextRun]_vars

-----------------------------------------------------------------------------
(* Generate runs that exercise the file names: a template of one or two     *)
(* outputs with any display names of LabelInputs and no field mapping, over *)
(* one or two rows holding at most a Tenant column.                         *)

LabelInputs ==
    { <<"C","o","m","p","l","a","i","n","t">>, <<"c","o","m","p","l","a","i","n","t">>,
      <<"S","u","m","m","o","n","s">>,
      <<"C","A","R","E","S"," ","A","f","f","i","d","a","v","i","t">>,
      <<"C","A","R","E","S"," "," ","A","f","f","i","d","a","v","i","t">>,
      <<"C","a","r","e","s","\t","F","o","r","m">>,
      <<"D","F","C">>, <<"b">>, <<"2","_","b">>, <<"A"," ","B">>, <<"a"," "," ","b">> }

ShortTenantCells ==
    {[present |-> FALSE, value |-> <<>>]}
    \cup {[present |-> TRUE, value |-> v] :
            v \in { <<>>, <<"X">>, <<"X","_","1">>,
                    <<"J","a","n","e"," ","Q","."," ","P","u","b","l","i","c">> }}

\* Tenant values of 49 to MaxPad + 2 characters, ending in ".Z"
LongTenantCells ==
    {[present |-> TRUE, value |-> Pad("x", n) \o <<".", "Z">>] : n \in 47..MaxPad}

NamingRows ==
    {<<rowWith(EmptyRow, "Tenant", a), rowWith(EmptyRow, "Tenant", b)>> :
        a \in ShortTenantCells, b \in ShortTenantCells}
    \cup {<<rowWith(EmptyRow, "Tenant", a)>> : a \in ShortTenantCells \cup LongTenantCells}

LabelledOutput(k, displayName) ==
    [filename |-> <<"first.pdf", "second.pdf">>[k], displayName |-> displayName,
     fieldMapping |-> <<>>, customLogic |-> "none"]

NamingTemplates ==
    {[id |-> "labelled", name |-> "labelled", pdfOutputs |-> <<LabelledOutput(1, a)>>] :
        a \in LabelInputs}
    \cup {[id |-> "labelled", name |-> "labelled",
           pdfOutputs |-> <<LabelledOutput(1, a), LabelledOutput(2, b)>>] :
            a \in LabelInputs, b \in LabelInputs}

InitNaming ==
    \E template \in NamingTemplates, rows \in NamingRows :
        Ready(template, loadedWith(template, NoDeviation), rows,
              CHOOSE d \in Dates : d.local # d.utc)

SpecNaming == InitNaming /\ [][NextRun]_vars

-----------------------------------------------------------------------------
(* Generate runs of the registered templates over one or two rows holding   *)
(* at most a Tenant column, with Tenant values that end like a row number   *)
(* or a label slug.                                                         *)

RegisteredTenantCells ==
    ShortTenantCells
    \cup {[present |-> TRUE, value |-> v] :
            v \in { <<"X","_","2">>, <<"X","_","1","_","c","o","m","p","l","a","i","n","t">>,
                    <<"X","_","1","_","c","a","r","e","s">> }}

RegisteredRows ==
    {<<rowWith(EmptyRow, "Tenant", a), rowWith(EmptyRow, "Tenant", b)>> :
        a \in RegisteredTenantCells, b \in RegisteredTenantCells}
    \cup {<<rowWith(EmptyRow, "Tenant", a)>> : a \in RegisteredTenantCells}

InitRegistered ==
    \E template \in Range(TEMPLATES), rows \in RegisteredRows :
        Ready(template, loadedWith(template, NoDeviation), rows,
              CHOOSE d \in Dates : d.local # d.utc)

SpecRegistered == InitRegistered /\ [][NextRun]_vars

-----------------------------------------------------------------------------
(* Properties *)

Completed(run) == run.phase = "Completed"

\* the names of the entries a run has put in its archive
entryNames(run) == DOMAIN run.zip

\* the row and the output descriptor of the unit a run is working on
unitRow(run) == run.csvData[run.i + 1]

unitOutput(run) == run.template.pdfOutputs[run.k]

\* the template bytes the unit's document was loaded from
unitFile(run) == run.pdfFiles[unitOutput(run).filename]

\* the column is absent from the row or holds the empty string
Blank(rowData, csvColumn) ==
    csvColumn \notin DOMAIN rowData \/ rowData[csvColumn] = <<>>

\* C1: a generate run that reaches Completed over N rows with a template of
\* K outputs has added exactly N x K entries to its archive.
C1_EntriesPerRun ==
    \A n \in DOMAIN finished :
        Completed(finished[n]) =>
            Cardinality(entryNames(finished[n]))
                = Len(finished[n].csvData) * Len(finished[n].template.pdfOutputs)


\* a run suspended at pdfDoc.save(): its form is the filled document of the unit
Filled(run) == run.phase = "save"

\* C2: a column of the mapping that is absent from the row or empty in it
\* leaves each of its target fields as the template has it.
C2_BlankColumnKeepsDefault ==
    \A j \in DOMAIN runs :
        Filled(runs[j]) =>
            \A e \in Range(unitOutput(runs[j]).fieldMapping) :
                Blank(unitRow(runs[j]), e.csvColumn) =>
                    \A f \in Range(e.pdfFieldNames) \cap DOMAIN unitFile(runs[j]) :
                        runs[j].doc[f] = unitFile(runs[j])[f]

\* C2 witness: a filled document in which a column present but empty left a
\* text field at its non-empty default while another column was written.
C2_Witness ==
    \E j \in DOMAIN runs :
        /\ Filled(runs[j])
        /\ \E e \in Range(unitOutput(runs[j]).fieldMapping) :
            /\ e.csvColumn \in DOMAIN unitRow(runs[j])
            /\ unitRow(runs[j])[e.csvColumn] = <<>>
            /\ \E f \in Range(e.pdfFieldNames) \cap DOMAIN unitFile(runs[j]) :
                /\ runs[j].doc[f] = TextField(DefaultText)
                /\ DefaultText # <<>>
        /\ \E f \in DOMAIN unitFile(runs[j]) : runs[j].doc[f] # unitFile(runs[j])[f]

\* the fields a descriptor's customLogic writes when it finds them
WrittenByCustomLogic(output) == fieldsOfCustomLogic(output.customLogic)

\* the mapping entries of a descriptor with one target, a text field of the
\* file, and a non-empty value in the row
SingleTextEntries(run) ==
    {e \in Range(unitOutput(run).fieldMapping) :
        /\ Len(e.pdfFieldNames) = 1
        /\ ~ Blank(unitRow(run), e.csvColumn)
        /\ e.pdfFieldNames[1] \in DOMAIN unitFile(run)
        /\ unitFile(run)[e.pdfFieldNames[1]].kind = "text"}

\* C3 as stated: in a filled document every single-target text field holds
\* the non-empty value of its source column.
C3_SingleTargetHoldsSource ==
    \A j \in DOMAIN runs :
        Filled(runs[j]) =>
            \A e \in SingleTextEntries(runs[j]) :
                runs[j].doc[e.pdfFieldNames[1]].text = unitRow(runs[j])[e.csvColumn]

\* C3 amended: in a filled document every single-target text field that the
\* descriptor's customLogic does not write holds the non-empty value of its
\* source column.
C3_SingleTargetHoldsSourceUnlessRewritten ==
    \A j \in DOMAIN runs :
        Filled(runs[j]) =>
            \A e \in SingleTextEntries(runs[j]) :
                e.pdfFieldNames[1] \notin WrittenByCustomLogic(unitOutput(runs[j])) =>
                    runs[j].doc[e.pdfFieldNames[1]].text = unitRow(runs[j])[e.csvColumn]

\* C3 witness: a filled document whose single-target text field took a value
\* that differs from the template default.
C3_Witness ==
    \E j \in DOMAIN runs :
        /\ Filled(runs[j])
        /\ \E e \in SingleTextEntries(runs[j]) :
            /\ e.pdfFieldNames[1] \notin WrittenByCustomLogic(unitOutput(runs[j]))
            /\ runs[j].doc[e.pdfFieldNames[1]].text = unitRow(runs[j])[e.csvColumn]
            /\ unitRow(runs[j])[e.csvColumn] # DefaultText


\* the entries a run has added, in the order of the calls of zip.file
Added(run) == {run.added[n] : n \in DOMAIN run.added}

\* every fillPdfForm invocation, suspended or returned
AllRuns == Range(runs) \cup Range(finished)

\* the file-name base the naming policy states for the row at index i: the
\* Tenant value, or Row_<i+1>, each character outside [A-Za-z0-9] replaced by
\* "_", cut to 50 characters
StatedBase(rowData, i) ==
    LET t == IF Blank(rowData, "Tenant")
             THEN <<"R","o","w","_">> \o NumberToString(i + 1)
             ELSE rowData["Tenant"]
    IN  [p \in 1..(IF Len(t) < 50 THEN Len(t) ELSE 50) |->
            IF t[p] \in AlphaNumeric THEN t[p] ELSE "_"]

\* C4: under a template of exactly one output the entry of the row at index
\* i is named <base>_<i+1>.pdf, without a label suffix.
C4_SingleOutputName ==
    \A run \in AllRuns :
        Len(run.template.pdfOutputs) = 1 =>
            \A a \in Added(run) :
                a.name = StatedBase(run.csvData[a.i + 1], a.i) \o <<"_">>
                         \o NumberToString(a.i + 1) \o <<".","p","d","f">>

\* the label slug as the naming policy states it: the label lower-cased, each
\* character of a white-space run but the first dropped, the first made "_"
StatedSlug(displayName) ==
    LET low == [p \in 1..Len(displayName) |-> LowerChar(displayName[p])]
        kept == {p \in 1..Len(low) :
                    low[p] \notin WhiteSpace \/ p = 1 \/ low[p - 1] \notin WhiteSpace}
        pos(n) == CHOOSE p \in kept : Cardinality({q \in kept : q < p}) = n - 1
    IN  [n \in 1..Cardinality(kept) |->
            IF low[pos(n)] \in WhiteSpace THEN "_" ELSE low[pos(n)]]

\* C5: under a template of more than one output the entry of row i and
\* descriptor d is named <base>_<i+1>_<slug of d's label>.pdf; on the first
\* row the label "Complaint" gives a name ending in _1_complaint.pdf.
C5_MultiOutputName ==
    \A run \in AllRuns :
        Len(run.template.pdfOutputs) > 1 =>
            \A a \in Added(run) :
                LET label == run.template.pdfOutputs[a.k].displayName
                IN  /\ a.name = StatedBase(run.csvData[a.i + 1], a.i) \o <<"_">>
                                \o NumberToString(a.i + 1) \o <<"_">>
                                \o StatedSlug(label) \o <<".","p","d","f">>
                    /\ (label = <<"C","o","m","p","l","a","i","n","t">> /\ a.i = 0) =>
                            SubSeq(a.name, Len(a.name) - 15, Len(a.name))
                                = <<"_","1","_","c","o","m","p","l","a","i","n","t",".","p","d","f">>

\* C5 witness: a completed run of two outputs over two rows, one label
\* holding a run of two white-space characters, with all its entries added.
C5_Witness ==
    \E run \in Range(finished) :
        /\ Completed(run)
        /\ Len(run.template.pdfOutputs) = 2
        /\ Len(run.csvData) = 2
        /\ Len(run.added) = 4
        /\ \E k \in 1..2 :
            LET label == run.template.pdfOutputs[k].displayName
            IN  \E p \in 1..(Len(label) - 1) :
                    label[p] \in WhiteSpace /\ label[p + 1] \in WhiteSpace

\* C6: the file-name base of the row at index i is the Tenant value, or
\* Row_<i+1> when it is absent or empty, with every character outside
\* [A-Za-z0-9] replaced by "_", cut to its first 50 characters: it has at
\* most 50 characters, all of [A-Za-z0-9_], and every entry name starts with
\* it followed by "_<i+1>".
C6_FileNameBase ==
    \A run \in AllRuns :
        \A a \in Added(run) :
            LET base == StatedBase(run.csvData[a.i + 1], a.i)
                head == base \o <<"_">> \o NumberToString(a.i + 1)
            IN  /\ Len(base) <= 50
                /\ \A p \in 1..Len(base) : base[p] \in AlphaNumeric \cup {"_"}
                /\ Len(a.name) >= Len(head) + 4
                /\ SubSeq(a.name, 1, Len(head)) = head
                /\ a.name[Len(head) + 1] \in {"_", "."}

\* C6 witness: an entry added for a Tenant value of more than 50 characters
\* with a character outside [A-Za-z0-9] among the first 50: the name goes on
\* with "_1" right after the 50 characters of the base.
C6_Witness ==
    \E run \in AllRuns : \E a \in Added(run) :
        /\ ~ Blank(run.csvData[a.i + 1], "Tenant")
        /\ Len(run.csvData[a.i + 1]["Tenant"]) > 50
        /\ \E p \in 1..50 : run.csvData[a.i + 1]["Tenant"][p] \notin AlphaNumeric
        /\ a.name[50] = "_" /\ a.name[51] = "_" /\ a.name[52] = "1"

\* the units of a run that have been given a name: the calls of zip.file
NamedUnits(run) == DOMAIN run.added

DistinctLabels(template) ==
    \A k1, k2 \in DOMAIN template.pdfOutputs :
        k1 # k2 => template.pdfOutputs[k1].displayName # template.pdfOutputs[k2].displayName

DistinctNames(run) ==
    \A n1, n2 \in NamedUnits(run) : n1 # n2 => run.added[n1].name # run.added[n2].name

\* C7: under a template whose display labels are pairwise distinct the names
\* given to the units of one run are pairwise distinct, so that no entry of
\* the archive overwrites another: the archive holds one entry for each unit
\* named.
C7_DistinctLabelsDistinctNames ==
    \A run \in AllRuns :
        DistinctLabels(run.template) =>
            /\ DistinctNames(run)
            /\ Cardinality(entryNames(run)) = Len(run.added)

\* C7 witness: a completed run of the three outputs of the Eviction Complaint
\* over the Tenant values "X" and "X_1", whose bases followed by a row number
\* resemble one another, has put six entries in its archive.
C7_Witness ==
    \E run \in Range(finished) :
        /\ Completed(run)
        /\ DistinctLabels(run.template)
        /\ Len(run.template.pdfOutputs) = 3
        /\ Len(run.csvData) = 2
        /\ ~ Blank(run.csvData[1], "Tenant") /\ run.csvData[1]["Tenant"] = <<"X">>
        /\ ~ Blank(run.csvData[2], "Tenant") /\ run.csvData[2]["Tenant"] = <<"X","_","1">>
        /\ Len(run.added) = 6
        /\ Cardinality(entryNames(run)) = 6

\* C8: two completed runs over the same template and the same rows have
\* given their archive entries the same set of names.
C8_SameInputsSameNames ==
    \A n1, n2 \in DOMAIN finished :
        ( /\ Completed(finished[n1])
          /\ Completed(finished[n2])
          /\ finished[n1].template = finished[n2].template
          /\ finished[n1].csvData = finished[n2].csvData )
        => entryNames(finished[n1]) = entryNames(finished[n2])

\* the two strings are equal up to the case of their letters
EqualIgnoringCase(a, b) ==
    /\ Len(a) = Len(b)
    /\ \A p \in 1..Len(a) :
        \/ a[p] = b[p]
        \/ \E q \in 1..Len(UpperSeq) : {a[p], b[p]} = {UpperSeq[q], LowerSeq[q]}

\* the values the boolean-field interpretation states as checked
StatedChecked(value) ==
    \/ EqualIgnoringCase(value, <<"t","r","u","e">>)
    \/ EqualIgnoringCase(value, <<"y","e","s">>)
    \/ value = <<"1">>

\* the mapping entries of the unit with a non-empty value in the row, paired
\* with each target of theirs that is a check box of the file
CheckBoxTargets(run) ==
    UNION {
        {[csvColumn |-> e.csvColumn, field |-> f] :
            f \in {y \in Range(e.pdfFieldNames) \cap DOMAIN unitFile(run) :
                        unitFile(run)[y].kind = "check"}} :
        e \in {x \in Range(unitOutput(run).fieldMapping) :
                    ~ Blank(unitRow(run), x.csvColumn)}}

\* C9: a mapped target that is a check box of the file, under a non-empty row
\* value, is checked in the filled document exactly when the value is "true"
\* or "yes" in any case or is "1", and is unchecked under every other value,
\* whatever the template had.
C9_CheckBoxInterpretation ==
    \A j \in DOMAIN runs :
        Filled(runs[j]) =>
            \A t \in CheckBoxTargets(runs[j]) :
                runs[j].doc[t.field]
                    = CheckBox(StatedChecked(unitRow(runs[j])[t.csvColumn]))

\* C9 witness: a filled document in which a check box the template had
\* checked has been unchecked under the value "no", or one the template had
\* unchecked has been checked under a value that is "true" or "yes" in
\* another case.
C9_Witness ==
    \E j \in DOMAIN runs :
        /\ Filled(runs[j])
        /\ \E t \in CheckBoxTargets(runs[j]) :
            LET value == unitRow(runs[j])[t.csvColumn]
            IN  \/ /\ value = <<"n","o">>
                   /\ unitFile(runs[j])[t.field].checked
                   /\ ~ runs[j].doc[t.field].checked
                \/ /\ value \in {<<"T","R","U","E">>, <<"y","E","s">>}
                   /\ ~ unitFile(runs[j])[t.field].checked
                   /\ runs[j].doc[t.field].checked

\* the field each post-processing rule puts the court address in
CourtAddressFields(output) ==
    fieldsOfCustomLogic(output.customLogic) \cap {"Court Address", "court_address"}

\* the County value of the row, lower-cased, is no key of the table
UnknownCounty(rowData) ==
    \/ "County" \notin DOMAIN rowData
    \/ toLowerCase(rowData["County"]) \notin DOMAIN COURT_ADDRESSES

\* C10: for a row whose lower-cased County value is no key of the court
\* address table, or that has no County column, the filled document has the
\* court address field as the template has it, and a run that completes has
\* put every output of that row in the archive.
C10_UnknownCountyKeepsDefault ==
    /\ \A j \in DOMAIN runs :
        (Filled(runs[j]) /\ UnknownCounty(unitRow(runs[j]))) =>
            \A f \in CourtAddressFields(unitOutput(runs[j])) \cap DOMAIN unitFile(runs[j]) :
                runs[j].doc[f] = unitFile(runs[j])[f]
    /\ \A run \in Range(finished) :
        Completed(run) =>
            \A i \in DOMAIN run.csvData :
                UnknownCounty(run.csvData[i]) =>
                    \A k \in DOMAIN run.template.pdfOutputs :
                        \E a \in Added(run) :
                            /\ a.i = i - 1 /\ a.k = k
                            /\ a.name \in DOMAIN run.zip
                            /\ \A f \in CourtAddressFields(run.template.pdfOutputs[k])
                                        \cap DOMAIN run.zip[a.name] :
                                run.zip[a.name][f]
                                    = run.pdfFiles[run.template.pdfOutputs[k].filename][f]

\* C10 witness: a completed run over a row of County "Nowhere" whose archive
\* holds a document with its court address text field at the template default
\* and other fields filled.
C10_Witness ==
    \E run \in Range(finished) :
        /\ Completed(run)
        /\ "County" \in DOMAIN run.csvData[1]
        /\ run.csvData[1]["County"] = <<"N","o","w","h","e","r","e">>
        /\ \E name \in DOMAIN run.zip :
            /\ \E f \in {"Court Address", "court_address"} \cap DOMAIN run.zip[name] :
                run.zip[name][f] = TextField(DefaultText)
            /\ \E f \in DOMAIN run.zip[name] :
                run.zip[name][f].kind = "text" /\ run.zip[name][f].text # DefaultText

\* "<address>, <city>, <state> <zip>" of a record of the court address table
StatedCourtAddress(record) ==
    record.address \o <<",", " ">> \o record.city \o <<",", " ">> \o record.state
    \o <<" ">> \o NumberToString(record.zip)

BoulderAddress ==
    <<"1","7","7","7"," ","6","T","H"," ","S","T",".",","," ",
      "B","O","U","L","D","E","R",","," ","C","O"," ","8","0","3","0","2">>

\* C11: for a row whose County value is a key of the court address table in
\* any letter case, the filled document has the court address text field set
\* to "<address>, <city>, <state> <zip>" of that record; a County that is
\* "boulder" in any case gives "1777 6TH ST., BOULDER, CO 80302".
C11_KnownCountySetsAddress ==
    \A j \in DOMAIN runs :
        (Filled(runs[j]) /\ "County" \in DOMAIN unitRow(runs[j])) =>
            \A key \in DOMAIN COURT_ADDRESSES :
                EqualIgnoringCase(unitRow(runs[j])["County"], key) =>
                    \A f \in CourtAddressFields(unitOutput(runs[j])) :
                        hasTextField(unitFile(runs[j]), f) =>
                            /\ runs[j].doc[f].text = StatedCourtAddress(COURT_ADDRESSES[key])
                            /\ key = <<"b","o","u","l","d","e","r">> =>
                                    runs[j].doc[f].text = BoulderAddress

\* C11 witness: a filled document of a row of County "BOULDER" whose court
\* address field holds the Boulder address, the template default gone.
C11_Witness ==
    \E j \in DOMAIN runs :
        /\ Filled(runs[j])
        /\ "County" \in DOMAIN unitRow(runs[j])
        /\ unitRow(runs[j])["County"] = <<"B","O","U","L","D","E","R">>
        /\ \E f \in CourtAddressFields(unitOutput(runs[j])) :
            /\ unitFile(runs[j])[f] = TextField(DefaultText)
            /\ runs[j].doc[f] = TextField(BoulderAddress)

\* the guards of fillPdfForm reject the call: no template is resolved, there
\* is no row, or no template file at all is loaded (pdfFiles.size === 0)
Unready ==
    \/ currentTemplate = NoTemplate
    \/ Len(csvData) = 0
    \/ DOMAIN pdfFiles = {}

\* C12: a generate action invoked while no template is resolved, the row
\* sequence is empty or the required template bytes have not loaded (a file
\* of the resolved template is not in the loaded set) is rejected: loading
\* stays false, no run starts, nothing is delivered and an error message is
\* set.
C12_UnreadyGenerateIsRejected ==
    [][LET bytesNotLoaded ==
                \E k \in DOMAIN currentTemplate.pdfOutputs :
                    currentTemplate.pdfOutputs[k].filename \notin DOMAIN pdfFiles
       IN  (ClickGenerate /\ (Unready \/ bytesNotLoaded)) =>
                /\ loading' = FALSE
                /\ runs' = runs
                /\ downloads' = downloads
                /\ error' # Null]_vars

\* a run whose awaited call threw
Failed(run) == run.phase = "Failed"

\* C13: once an exception has escaped a unit or the finalization of the
\* archive, the run is over: the invocation has returned with no unit in
\* progress, nothing has been handed to the download, no success message is
\* set, and the one error message of the failure is shown.
C13_FailureAbortsRun ==
    \A n \in DOMAIN finished :
        Failed(finished[n]) =>
            /\ runs = <<>>
            /\ downloads = <<>>
            /\ success = Null
            /\ error = Message("Error filling PDFs", 0, 0, <<>>)
            /\ loading = FALSE
            /\ progress = Null

\* C13 witness: a run has failed after it had put a document in its archive
\* and with units still to come; the archive was not downloaded.
C13_Witness ==
    \E n \in DOMAIN finished :
        /\ Failed(finished[n])
        /\ Len(finished[n].added) >= 1
        /\ Len(finished[n].added)
                < Len(finished[n].csvData) * Len(finished[n].template.pdfOutputs)
        /\ DOMAIN finished[n].zip # {}
        /\ downloads = <<>>
        /\ error # Null

\* YYYY-MM-DD of a calendar date
StatedDate(day) ==
    NumberToString(day.year) \o <<"-">>
    \o (IF day.month < 10 THEN <<"0">> ELSE <<>>) \o NumberToString(day.month) \o <<"-">>
    \o (IF day.date < 10 THEN <<"0">> ELSE <<>>) \o NumberToString(day.date)

\* every (row, output) unit of the run has its entry
AllUnitsAdded(run) ==
    \A i \in DOMAIN run.csvData : \A k \in DOMAIN run.template.pdfOutputs :
        \E a \in Added(run) : a.i = i - 1 /\ a.k = k

\* the one run of the behaviour has delivered at most once, after its last
\* unit, under the name <templateId>-<day>.zip, and the success message of
\* the run is shown only once the archive has been delivered
DeliveredOnceAs(day) ==
    /\ Len(downloads) <= 1
    /\ downloads # <<>> =>
        /\ runs = <<>>
        /\ Len(finished) = 1
        /\ Completed(finished[1])
        /\ AllUnitsAdded(finished[1])
        /\ downloads[1].zip = finished[1].zip
        /\ downloads[1].download = <<finished[1].template.id, "-", StatedDate(day), ".zip">>
    /\ success.text = "Successfully generated" => Len(downloads) = 1

\* C14: the run delivers its archive at most once and after all its units,
\* named <templateId>-<current date as YYYY-MM-DD>.zip, the current date
\* being the date of the instant of the delivery as its ISO form gives it,
\* and shows the success message only after the delivery.
C14_DeliveredOnceUnderCurrentDate == DeliveredOnceAs(today.utc)

\* C14 witness: the run has completed with every unit in its archive, the
\* archive has been delivered once under the template's identifier and the
\* date, and the success message is shown.
C14_Witness ==
    /\ runs = <<>>
    /\ Len(finished) = 1
    /\ Completed(finished[1])
    /\ AllUnitsAdded(finished[1])
    /\ Len(finished[1].added) >= 1
    /\ Len(downloads) = 1
    /\ downloads[1].download
            = <<finished[1].template.id, "-", StatedDate(today.utc), ".zip">>
    /\ success.text = "Successfully generated"

\* the mapping entries of the unit that have a non-empty value in the row
ValuedEntries(run) ==
    {e \in Range(unitOutput(run).fieldMapping) : ~ Blank(unitRow(run), e.csvColumn)}

\* C15: in the filled document of a unit every target of a non-empty mapped
\* value that is a text field holds the value, every one that is a check
\* box holds its interpretation, and one that is neither is left out without
\* an error message, the other targets and entries being filled all the
\* same; a run that completes has put every unit in the archive.
C15_FieldFailureIsSkipped ==
    /\ \A j \in DOMAIN runs :
        Filled(runs[j]) =>
            /\ error = Null
            /\ DOMAIN runs[j].doc = DOMAIN unitFile(runs[j])
            /\ \A e \in ValuedEntries(runs[j]) :
                \A f \in Range(e.pdfFieldNames) \ WrittenByCustomLogic(unitOutput(runs[j])) :
                    /\ hasTextField(unitFile(runs[j]), f) =>
                            runs[j].doc[f] = TextField(unitRow(runs[j])[e.csvColumn])
                    /\ hasCheckBox(unitFile(runs[j]), f) =>
                            runs[j].doc[f]
                                = CheckBox(StatedChecked(unitRow(runs[j])[e.csvColumn]))
    /\ \A run \in Range(finished) : Completed(run) => AllUnitsAdded(run)

\* C15 witness: a completed run whose template file lacked one target of a
\* mapped value: the document in the archive has another target of the same
\* entry and the target of a later entry filled, and no error is shown.
C15_Witness ==
    \E run \in Range(finished) :
        /\ Completed(run)
        /\ error = Null
        /\ \E a \in Added(run) :
            LET output == run.template.pdfOutputs[a.k]
                rowData == run.csvData[a.i + 1]
                doc == run.zip[a.name]
            IN  \E n \in DOMAIN output.fieldMapping :
                    LET e == output.fieldMapping[n]
                    IN  /\ ~ Blank(rowData, e.csvColumn)
                        /\ \E p \in DOMAIN e.pdfFieldNames :
                            /\ e.pdfFieldNames[p] \notin DOMAIN run.pdfFiles[output.filename]
                            /\ \E q \in DOMAIN e.pdfFieldNames :
                                /\ q > p
                                /\ doc[e.pdfFieldNames[q]] = TextField(rowData[e.csvColumn])
                        /\ \E m \in DOMAIN output.fieldMapping :
                            /\ m > n
                            /\ ~ Blank(rowData, output.fieldMapping[m].csvColumn)
                            /\ doc[output.fieldMapping[m].pdfFieldNames[1]]
                                    = TextField(rowData[output.fieldMapping[m].csvColumn])

\* the document the unit gives when the template file has every field the
\* descriptor refers to, as a text field
CompleteDocument(run) ==
    fillDocument(servedPdf(unitOutput(run)), unitOutput(run), unitRow(run), today)

\* the fields the post-processing rule of the descriptor derives that are
\* text fields of the unit's template file
DerivedTextFields(run) ==
    {f \in fieldsOfCustomLogic(unitOutput(run).customLogic) :
        hasTextField(unitFile(run), f)}

\* the three fields the Complaint rule fetches in one try block
SignatureGroup == {"Sig1_Date", "Sig1_Month", "Sig1_Year"}

\* C16 as stated: whatever other field of the rule is missing from the
\* template file or is no text field, every derived field that is a text
\* field of the file holds in the filled document the value the rule derives
\* for it, and the unit is filled without an error message.
C16_EachDerivedFieldIsAttempted ==
    \A j \in DOMAIN runs :
        Filled(runs[j]) =>
            /\ error = Null
            /\ \A f \in DerivedTextFields(runs[j]) :
                runs[j].doc[f] = CompleteDocument(runs[j])[f]

\* C16 amended: the same for each sub-action of a rule, the three signature
\* fields of the Complaint being one sub-action: they hold their derived
\* values when all three are text fields of the file and are left as the
\* template has them when one of the three is missing or is no text field.
C16_EachSubActionIsAttempted ==
    \A j \in DOMAIN runs :
        Filled(runs[j]) =>
            /\ error = Null
            /\ \A f \in DerivedTextFields(runs[j]) :
                IF f \in SignatureGroup /\ ~ (SignatureGroup \subseteq DerivedTextFields(runs[j]))
                THEN runs[j].doc[f] = unitFile(runs[j])[f]
                ELSE runs[j].doc[f] = CompleteDocument(runs[j])[f]

\* C16 witness: a filled Complaint whose file lacks the eviction explanation
\* field, or has a check box for it, and whose signature, court address and
\* per-diem fields hold their derived values all the same.
C16_Witness ==
    \E j \in DOMAIN runs :
        /\ Filled(runs[j])
        /\ unitOutput(runs[j]).customLogic = "Complaint"
        /\ ~ hasTextField(unitFile(runs[j]), "11.0")
        /\ runs[j].doc["Sig1_Month"] = TextField(<<"O","c","t","o","b","e","r">>)
        /\ runs[j].doc["Court Address"] = TextField(BoulderAddress)
        /\ runs[j].doc["10A.5"] = TextField(<<"1","2",".","5","0">>)

\* the message is rendered: the state holds a non-empty string
Shown(message) == message # Null

\* C17: in every state at most one of the error message, the success
\* message and the progress status is shown.
C17_AtMostOneMessage ==
    /\ ~ (Shown(error) /\ Shown(success))
    /\ ~ (Shown(error) /\ Shown(progress))
    /\ ~ (Shown(success) /\ Shown(progress))

-----------------------------------------------------------------------------
(* The application from its first render, with the user events of the      *)
(* behaviours that follow the template loads.                               *)

InitLoads ==
    /\ selectedTemplate = ""
    /\ currentTemplate = NoTemplate
    /\ csvFile = NoFile
    /\ pdfFiles = <<>>
    /\ csvData = <<>>
    /\ loading = FALSE
    /\ error = Null
    /\ success = Null
    /\ progress = Null
    /\ loads = <<>>
    /\ parses = <<>>
    /\ runs = <<>>
    /\ downloads = <<>>
    /\ finished = <<>>
    /\ today = CHOOSE d \in Dates : d.local # d.utc
    /\ budget = MaxLoadEvents

SpecLoads == InitLoads /\ [][Next]_vars

\* the loaded set holds the file of every output of one registered template
\* and the message of the finished load is shown
LoadedWhole ==
    \E t \in DOMAIN TEMPLATES :
        /\ DOMAIN pdfFiles
                = {TEMPLATES[t].pdfOutputs[k].filename : k \in DOMAIN TEMPLATES[t].pdfOutputs}
        /\ success = Message("Template loaded", Len(TEMPLATES[t].pdfOutputs), 0, <<>>)

\* the loaded set is empty and the message of the failed load is shown
LoadedNothing ==
    /\ pdfFiles = <<>>
    /\ error = Message("Error loading PDF template", 0, 0, <<>>)

\* C18: a template load ends either with the files of all its outputs or,
\* when a fetch has failed, with an empty loaded set and an error message,
\* whatever had been fetched before; while the loaded set is empty no run
\* starts and nothing is downloaded by a later generate action, and the set
\* stays empty until a load ends with all its files.
C18_FetchFailureLoadsNothing ==
    [][/\ Len(loads') < Len(loads) => (LoadedWhole' \/ LoadedNothing')
       /\ DOMAIN pdfFiles = {} =>
            /\ ~ generateEnabled
            /\ Len(runs') <= Len(runs)
            /\ DOMAIN pdfFiles' # {} => (Len(loads') < Len(loads) /\ LoadedWhole')]_vars

\* C18 witness: a fetch has failed after rows were parsed under a resolved
\* template: nothing is loaded, the error is shown, generate is disabled and
\* nothing has been downloaded.
C18_Witness ==
    /\ LoadedNothing
    /\ currentTemplate # NoTemplate
    /\ Len(csvData) > 0
    /\ csvFile # NoFile
    /\ ~ loading
    /\ ~ generateEnabled
    /\ runs = <<>>
    /\ downloads = <<>>

\* the fields of the unit that the mapping sets from a non-empty value and
\* that the post-processing rule of the descriptor writes as well, with the
\* column both read
SetByBoth(run) ==
    UNION {
        {[csvColumn |-> e.csvColumn, field |-> f] :
            f \in {y \in Range(e.pdfFieldNames) \cap WrittenByCustomLogic(unitOutput(run)) :
                        hasTextField(unitFile(run), y)}} :
        e \in ValuedEntries(run)}

\* what the rule writes in a field it shares with the mapping: the per-diem
\* amount with two decimals, the amounts of the DFC form less their first "$"
StatedRuleValue(field, value) ==
    IF field = "10A.5" THEN formatNumber2(Number(value)) ELSE replaceFirstDollar(value)

\* C19: in the document handed to save() a field set by the mapping and by
\* the post-processing rule holds the value the rule wrote, the rule having
\* run once after the mapping: "12.5" is saved as "12.50", "$1,200" as
\* "1,200" and "$$5" as "$5".
C19_RuleOverridesMapping ==
    \A j \in DOMAIN runs :
        Filled(runs[j]) =>
            \A t \in SetByBoth(runs[j]) :
                LET value == unitRow(runs[j])[t.csvColumn]
                    saved == runs[j].doc[t.field].text
                IN  /\ saved = StatedRuleValue(t.field, value)
                    /\ (t.field = "10A.5" /\ value = <<"1","2",".","5">>)
                            => saved = <<"1","2",".","5","0">>
                    /\ (t.field # "10A.5" /\ value = <<"$","1",",","2","0","0">>)
                            => saved = <<"1",",","2","0","0">>
                    /\ (t.field # "10A.5" /\ value = <<"$","$","5">>)
                            => saved = <<"$","5">>

\* C19 witness: a filled document in which a field set by both holds the
\* rule's value, which is not the value of the column.
C19_Witness ==
    \E j \in DOMAIN runs :
        /\ Filled(runs[j])
        /\ \E t \in SetByBoth(runs[j]) :
            /\ unitRow(runs[j])[t.csvColumn] = <<"$","$","5">>
            /\ runs[j].doc[t.field] = TextField(<<"$","5">>)
        /\ \E t \in SetByBoth(runs[j]) :
            runs[j].doc[t.field].text # unitRow(runs[j])[t.csvColumn]

-----------------------------------------------------------------------------
(* Generate runs over two rows under the registered templates, the files as *)
(* the server has them.                                                     *)

TwoRowInputs ==
    {<<a, b>> : a \in {FullRow, EmptyRow, JaneRow, BlankRow},
                b \in {FullRow, EmptyRow, JaneRow, BlankRow}}

InitRows ==
    \E t \in DOMAIN TEMPLATES, rows \in TwoRowInputs :
        Ready(TEMPLATES[t], loadedWith(TEMPLATES[t], NoDeviation), rows,
              CHOOSE d \in Dates : d.local # d.utc)

SpecRows == InitRows /\ [][NextRun]_vars

\* the fields of the output that its mapping sets from a non-empty value of
\* the row or that its post-processing rule writes
WrittenFor(output, rowData) ==
    UNION {Range(e.pdfFieldNames) :
            e \in {x \in Range(output.fieldMapping) : ~ Blank(rowData, x.csvColumn)}}
    \cup WrittenByCustomLogic(output)

\* C20: the document of every unit in the archive has the fields of its own
\* template file, differs from the file only in fields its own row and
\* descriptor write, and is the same for equal rows of the same descriptor;
\* the template files are in every state what they were when the run began.
C20_UnitsAreIndependent ==
    \A run \in AllRuns :
        /\ run.pdfFiles = pdfFiles
        /\ \A fn \in DOMAIN pdfFiles : \A f \in DOMAIN pdfFiles[fn] :
                pdfFiles[fn][f] = TextField(DefaultText)
        /\ \A a \in Added(run) :
            LET output == run.template.pdfOutputs[a.k]
                file == run.pdfFiles[output.filename]
                doc == run.zip[a.name]
            IN  /\ DOMAIN doc = DOMAIN file
                /\ \A f \in DOMAIN doc :
                        doc[f] # file[f] => f \in WrittenFor(output, run.csvData[a.i + 1])
                /\ \A b \in Added(run) :
                        (b.k = a.k /\ run.csvData[b.i + 1] = run.csvData[a.i + 1])
                            => run.zip[b.name] = doc

\* C20 witness: a completed run whose first row filled a mapped field and
\* whose second row has no value for it: the second document has the field
\* as the template has it.
C20_Witness ==
    \E run \in Range(finished) :
        /\ Completed(run)
        /\ \E a, b \in Added(run) :
            /\ a.k = b.k /\ a.i = 0 /\ b.i = 1
            /\ \E e \in Range(run.template.pdfOutputs[a.k].fieldMapping) :
                LET f == e.pdfFieldNames[1]
                IN  /\ f \notin WrittenByCustomLogic(run.template.pdfOutputs[a.k])
                    /\ ~ Blank(run.csvData[1], e.csvColumn)
                    /\ Blank(run.csvData[2], e.csvColumn)
                    /\ run.zip[a.name][f] = TextField(run.csvData[1][e.csvColumn])
                    /\ run.zip[b.name][f] = TextField(DefaultText)

\* the number of units that come before the unit (i, k) in row-major order
UnitsBefore(run, i, k) == i * Len(run.template.pdfOutputs) + (k - 1)

\* C21: the entries of a run are added in increasing (row, output) order,
\* and the document of a unit is loaded only when every unit before it in
\* that order, and no other, has been saved and added to the archive.
C21_RowMajorOrder ==
    \A run \in AllRuns :
        /\ \A m, n \in DOMAIN run.added :
            m < n =>
                \/ run.added[m].i < run.added[n].i
                \/ run.added[m].i = run.added[n].i /\ run.added[m].k < run.added[n].k
        /\ run.phase \in {"read", "load", "save"} =>
            /\ Len(run.added) = UnitsBefore(run, run.i, run.k)
            /\ \A n \in DOMAIN run.added :
                UnitsBefore(run, run.added[n].i, run.added[n].k) = n - 1

\* C21 witness: the document of the first output for the second row is being
\* saved, every output of the first row being in the archive.
C21_Witness ==
    \E j \in DOMAIN runs :
        /\ runs[j].phase = "save"
        /\ runs[j].i = 1 /\ runs[j].k = 1
        /\ Len(runs[j].template.pdfOutputs) = 3
        /\ Len(runs[j].added) = 3
        /\ \A n \in 1..3 : runs[j].added[n].i = 0 /\ runs[j].added[n].k = n

-----------------------------------------------------------------------------
(* The runs over two rows when every awaited call settles: a pending        *)
(* pdfFile.arrayBuffer, PDFDocument.load, pdfDoc.save or zip.generateAsync  *)
(* returns unless it throws.                                                *)

SpecRowsFair ==
    /\ InitRows
    /\ [][NextRun]_vars
    /\ WF_vars(FileRead)
    /\ WF_vars(DocumentLoaded)
    /\ WF_vars(DocumentSaved)
    /\ WF_vars(ArchiveGenerated)

\* a fillPdfForm invocation is between its first and its last statement
Running == runs # <<>>

\* C22: a run that is Running eventually is no longer, and it leaves Running
\* only as Completed or as Failed, with loading false and the progress status
\* cleared.
C22_RunEnds ==
    /\ Running ~> ~ Running
    /\ [][Len(runs') < Len(runs) =>
            /\ Len(finished') = Len(finished) + 1
            /\ finished'[Len(finished')].phase \in {"Completed", "Failed"}
            /\ loading' = FALSE
            /\ progress' = Null]_vars
    /\ [](Running => loading)

\* C22 witness: a run over two rows and three outputs has ended Completed
\* with its six entries: loading is false and no progress is shown.
C22_Witness ==
    /\ ~ Running
    /\ Len(finished) = 1
    /\ Completed(finished[1])
    /\ Len(finished[1].added) = 6
    /\ ~ loading
    /\ progress = Null


-----------------------------------------------------------------------------
(* C23: a run works on what it captured when it started *)

\* the name and the bytes of the unit (i, k) computed from the template, the
\* rows and the template bytes the run captured
ExpectedName(run, i, k) ==
    filename(run.csvData[i + 1], i, run.template.pdfOutputs[k])

ExpectedDocument(run, i, k) ==
    fillDocument(run.pdfFiles[run.template.pdfOutputs[k].filename],
                 run.template.pdfOutputs[k], run.csvData[i + 1], today)

StartedWith(run) ==
    [template |-> run.template, csvData |-> run.csvData, pdfFiles |-> run.pdfFiles]

\* C23: a run starts from the template, the rows and the template bytes that
\* are current at the click; no later step (a selection, an upload, a parse
\* or a fetch completion between its units) changes what it started with, and
\* every entry it adds has the name and the contents computed from what it
\* started with; the archive delivered is the one so built.
C23_ArchiveFromRunStart ==
    [][/\ Len(runs') > Len(runs) =>
            LET run == runs'[Len(runs')]
            IN  /\ StartedWith(run) = [template |-> currentTemplate,
                                       csvData |-> csvData, pdfFiles |-> pdfFiles]
                /\ run.added = <<>>
                /\ run.zip = <<>>
       /\ Len(runs') = Len(runs) =>
            \A j \in DOMAIN runs :
                LET run == runs[j]
                    after == runs'[j]
                IN  /\ StartedWith(after) = StartedWith(run)
                    /\ IF after.added # run.added
                       THEN /\ after.added =
                                   Append(run.added,
                                          [i |-> run.i, k |-> run.k,
                                           name |-> ExpectedName(run, run.i, run.k)])
                            /\ after.zip =
                                   (ExpectedName(run, run.i, run.k) :>
                                        ExpectedDocument(run, run.i, run.k)) @@ run.zip
                       ELSE after.zip = run.zip
       /\ Len(runs') < Len(runs) =>
            \E j \in DOMAIN runs :
                LET done == finished'[Len(finished')]
                IN  /\ Len(finished') = Len(finished) + 1
                    /\ StartedWith(done) = StartedWith(runs[j])
                    /\ done.added = runs[j].added
                    /\ done.zip = runs[j].zip
                    /\ Completed(done) =>
                            /\ Len(downloads') = Len(downloads) + 1
                            /\ downloads'[Len(downloads')].zip = done.zip
      ]_vars

\* a run that has added every entry of its one row and waits for the archive
\* while another template has been selected and the rows have been cleared
C23_Witness ==
    \E j \in DOMAIN runs :
        /\ runs[j].phase = "zip"
        /\ Len(runs[j].added) = Len(runs[j].template.pdfOutputs)
        /\ currentTemplate # NoTemplate
        /\ currentTemplate # runs[j].template
        /\ csvData # runs[j].csvData


-----------------------------------------------------------------------------
(* C24: the loaded template bytes and the resolved template *)

\* the bytes of every descriptor of a template, under their file names
BytesOf(template) ==
    [name \in {template.pdfOutputs[k].filename : k \in DOMAIN template.pdfOutputs} |->
        servedPdf(template.pdfOutputs[
            CHOOSE k \in DOMAIN template.pdfOutputs :
                template.pdfOutputs[k].filename = name])]

\* C24: whenever the loaded template bytes are non-empty they are the bytes
\* of the descriptors of the currently resolved template, and every run works
\* on the bytes of the template it fills.
C24_LoadedBytesAreOfCurrentTemplate ==
    /\ DOMAIN pdfFiles # {} =>
            /\ currentTemplate # NoTemplate
            /\ pdfFiles = BytesOf(currentTemplate)
    /\ \A run \in AllRuns : run.pdfFiles = BytesOf(run.template)


-----------------------------------------------------------------------------
(* C25: one run at a time *)

\* C25: at most one run is Running at any time: a run in flight keeps the
\* loading flag true, the generate action is not enabled while the flag is
\* true, and no step taken under a true flag starts a run.
C25_OneRunAtATime ==
    /\ [](/\ Len(runs) <= 1
          /\ Running => loading
          /\ loading => ~ generateEnabled)
    /\ [][loading => Len(runs') <= Len(runs)]_vars

\* a run suspended between its units while a file, rows, a template and its
\* bytes are all present and events are left: only the loading flag keeps the
\* generate action from starting a second run
C25_Witness ==
    /\ Len(runs) = 1
    /\ runs[1].phase = "save"
    /\ loading
    /\ budget > 0
    /\ currentTemplate # NoTemplate
    /\ csvFile # NoFile
    /\ Len(csvData) > 0
    /\ DOMAIN pdfFiles # {}


-----------------------------------------------------------------------------
(* C26: the rows and the recorded CSV file *)

\* C26: whenever the generate action is enabled, the row sequence is the
\* parse result of the currently recorded CSV file.
C26_RowsAreOfRecordedFile ==
    generateEnabled => csvData = csvFile.rows


-----------------------------------------------------------------------------
(* C27: units whose template file is not loaded *)

\* the (row, output) units of a run whose template file is in the set the
\* run works on
LoadedUnits(run) ==
    {u \in (0 .. Len(run.csvData) - 1) \X DOMAIN run.template.pdfOutputs :
        run.template.pdfOutputs[u[2]].filename \in DOMAIN run.pdfFiles}

\* the units a run skips
MissingUnits(run) ==
    ((0 .. Len(run.csvData) - 1) \X DOMAIN run.template.pdfOutputs) \ LoadedUnits(run)

\* C27: a unit whose template file is not in the loaded set is never loaded
\* or saved and adds no entry; it does not fail the run (a run is Failed only
\* by the step of a throwing call); a Completed run has added exactly the
\* units whose file is loaded, and the count of its success message is the
\* number of entries of the archive it delivered.
C27_MissingFileSkipsUnit ==
    /\ [](\A run \in AllRuns :
            /\ \A n \in DOMAIN run.added :
                    <<run.added[n].i, run.added[n].k>> \in LoadedUnits(run)
            /\ run.phase \in {"read", "load", "save"} => <<run.i, run.k>> \in LoadedUnits(run)
            /\ Completed(run) =>
                    /\ {<<run.added[n].i, run.added[n].k>> : n \in DOMAIN run.added}
                            = LoadedUnits(run)
                    /\ Len(run.added) = Cardinality(LoadedUnits(run))
                    /\ Cardinality(entryNames(run)) = Len(run.added))
    /\ [][/\ Len(downloads') > Len(downloads) =>
                LET done == finished'[Len(finished')]
                IN  /\ Len(finished') = Len(finished) + 1
                    /\ Completed(done)
                    /\ downloads'[Len(downloads')].zip = done.zip
                    /\ success' = Message("Successfully generated",
                                          Cardinality(entryNames(done)), 0, <<>>)
          /\ (Len(finished') > Len(finished) /\ Failed(finished'[Len(finished')])) =>
                error' = Message("Error filling PDFs", 0, 0, <<>>)
         ]_vars

\* a Completed run with units whose template file was not loaded: none of
\* them added an entry, and the success message counts the entries added
C27_Witness ==
    /\ Len(finished) = 1
    /\ Completed(finished[1])
    /\ MissingUnits(finished[1]) # {}
    /\ Len(downloads) = 1
    /\ Cardinality(DOMAIN downloads[1].zip) = Cardinality(LoadedUnits(finished[1]))
    /\ success = Message("Successfully generated",
                         Cardinality(LoadedUnits(finished[1])), 0, <<>>)

====
